---- MODULE Spec2Model ----
(***************************************************************************)
(* Dynamic Presence: the presence state machine (PresenceControl), its     *)
(* timers (PresenceTimer) and the light commands it gives through          *)
(* LightController, for a small set of rooms.                              *)
(*                                                                         *)
(* One action is one handler run to completion (event handlers are not     *)
(* interleaved here); a service call for a light ends as hass.services     *)
(* lets it end: done, ServiceNotFound, or another HomeAssistantError.      *)
(***************************************************************************)
EXTENDS Integers, FiniteSets, Sequences, TLC

(***************************************************************************)
(* Rooms and their configuration (RoomConfig).                             *)
(***************************************************************************)
Rooms == {"A", "B", "C"}

Lights == {"a1", "a2", "a3", "b1", "c1"}

\* RoomState(Enum)
VACANT == "vacant"
OCCUPIED == "occupied"
DETECTION_TIMEOUT == "detection_timeout"
COUNTDOWN == "countdown"
RoomState == {VACANT, OCCUPIED, DETECTION_TIMEOUT, COUNTDOWN}

Modes == {"main", "night"}

\* what the presence sensor may report in a state-changed event
SensorStates == {"on", "off", "unavailable"}

\* the values the number entities are set to
TimeoutKeys == {"detection_timeout", "long_timeout", "short_timeout"}
TimeoutValues ==
    [k \in TimeoutKeys |->
        CASE k = "detection_timeout" -> {5}
          [] k = "long_timeout" -> {120, 5}
          [] k = "short_timeout" -> {60}]

SwitchKeys ==
    {"switch_automation", "switch_auto_on", "switch_auto_off", "switch_night_manual_on"}

\* how hass.services.async_call ends: the service ran, ServiceNotFound was raised,
\* or the service raised another HomeAssistantError
Outcomes == {"ok", "not_found", "error"}

\* the order in which the configured lists hold the lights, and hass.data the rooms
\* const.py
DEFAULT_LIGHT_THRESHOLD == 20

light_order == <<"a1", "a2", "a3", "b1", "c1">>
room_order == <<"A", "B", "C">>

VARIABLES
    state,            \* PresenceControl._state of each room
    detection_timer,  \* PresenceControl._detection_timer of each room
    countdown_timer,  \* PresenceControl._countdown_timer of each room
    data,             \* coordinator.data: the switches, the night-mode flag and
                      \* the light level
    config,           \* coordinator.detection_timeout, long_timeout, short_timeout,
                      \* has_light_sensor, light_threshold
    has_night_mode,   \* coordinator.has_night_mode
    lights,           \* coordinator.lights: the main light set of each room
    night_lights,     \* coordinator.night_lights: the night light set of each room
    adjacent_rooms,   \* entry.options[CONF_ADJACENT_ROOMS]
    manual_states,    \* coordinator.manual_states[mode][light]
    light_on,         \* hass.states: a light reports "on"
    service,          \* hass.services: how a call for a light ends
    calls,            \* the service calls of the last handler, in order, with results
    coordinator,      \* the DynamicPresenceCoordinator of coordinator.py: its fields
    now,              \* dt_util.now(): the time of day
    storage,          \* the DynamicPresenceStorage of storage_collection.py
    cmds,             \* the light commands of the last handler: <<service, light>>
    loop,             \* the event loop: the handlers suspended at an await
    last              \* the last handler: what ran, for which room, from which state

vars ==
    <<state, detection_timer, countdown_timer, data, config, has_night_mode,
      lights, night_lights, adjacent_rooms, manual_states, light_on, service, calls,
      coordinator, now, storage, cmds, loop, last>>

\* what no handler of PresenceControl writes
outside == <<service, coordinator, now, storage>>

\* RoomConfig: immutable until the options are reloaded
room_config == <<has_night_mode, lights, night_lights, adjacent_rooms>>

(***************************************************************************)
(* The event loop                                                          *)
(*   tasks     : the handlers suspended at an await, each with the room,   *)
(*               the state _update_state was asked for, and the await:     *)
(*               "command" (a light command, before self._state =          *)
(*               new_state) or "refresh" (async_refresh, after it)         *)
(*   delivered : the reading of the last presence event delivered          *)
(*   stale     : the pending callback of the timer was scheduled before    *)
(*               the room entered its present state                        *)
(***************************************************************************)
MaxTasks == 2

NoLoop ==
    [tasks |-> << >>,
     delivered |-> [r \in Rooms |-> "none"],
     stale |-> [r \in Rooms |-> [detection |-> FALSE, countdown |-> FALSE]]]

(***************************************************************************)
(* PresenceTimer                                                           *)
(*   timer    : self._timer is not None (is_active)                        *)
(*   pending  : the host still holds the callback scheduled under the      *)
(*              handle in self._timer                                      *)
(*   duration : self._duration                                             *)
(*   orphans  : callbacks the host still holds whose handle the timer      *)
(*              dropped without cancelling it                              *)
(***************************************************************************)
NoTimer == [timer |-> FALSE, pending |-> FALSE, duration |-> 0, orphans |-> 0]

cancel(t) == IF t.timer THEN [NoTimer EXCEPT !.orphans = t.orphans] ELSE t

\* a variant that schedules the new callback and overwrites the handle
start_without_cancel(t, duration) ==
    IF duration <= 0
    THEN t
    ELSE [timer |-> TRUE, pending |-> TRUE, duration |-> duration,
          orphans |-> t.orphans + (IF t.pending THEN 1 ELSE 0)]

\* a variant that cancels before it looks at the duration
start_cancel_first(t, duration) ==
    IF duration <= 0
    THEN cancel(t)
    ELSE [cancel(t) EXCEPT !.timer = TRUE, !.pending = TRUE, !.duration = duration]

start(t, duration) ==
    IF duration <= 0
    THEN t
    ELSE [cancel(t) EXCEPT !.timer = TRUE, !.pending = TRUE, !.duration = duration]

\* the callbacks of the timer the host holds
Scheduled(t) == (IF t.pending THEN 1 ELSE 0) + t.orphans

\* the host runs the scheduled callback: the handle stays in self._timer
Fired(t) == [t EXCEPT !.pending = FALSE]

(***************************************************************************)
(* Coordinator values PresenceControl reads                                *)
(***************************************************************************)
get(m, key, default) == IF key \in DOMAIN m THEN m[key] ELSE default

is_night_mode_active(r) == data[r].binary_sensor_night_mode

\* _update_state: is_night_mode
is_night_mode(r) == IF has_night_mode[r] THEN is_night_mode_active(r) ELSE FALSE

\* _update_state: night_manual_on
night_manual_on(r) ==
    IF has_night_mode[r] THEN data[r].switch_night_manual_on ELSE FALSE

\* _update_state: mode
mode(r) == IF is_night_mode(r) THEN "night" ELSE "main"

\* coordinator.active_lights
active_lights(r) == IF is_night_mode(r) THEN night_lights[r] ELSE lights[r]

(***************************************************************************)
(* LightController                                                         *)
(***************************************************************************)
check_any_lights_on(ls) == \E l \in ls : light_on[l]

\* a list holding the lights of ls, resp. the rooms of rs
ListOf(ls) == SelectSeq(light_order, LAMBDA l : l \in ls)
RoomList(rs) == SelectSeq(room_order, LAMBDA r : r \in rs)

\* what a run of calls comes to: the calls made, and whether an error was raised
Nothing == [calls |-> << >>, raised |-> FALSE]

\* first a, then b unless a raised
Then(a, b) ==
    IF a.raised THEN a ELSE [calls |-> a.calls \o b.calls, raised |-> b.raised]

RECURSIVE Chain(_)
Chain(runs) == IF runs = << >> THEN Nothing ELSE Then(Head(runs), Chain(Tail(runs)))

\* the runs of a loop up to and with the first one whose call failed
RECURSIVE ChainUntilFailure(_)
ChainUntilFailure(runs) ==
    IF runs = << >> THEN Nothing
    ELSE IF Head(runs).calls[1].result # "ok" THEN Head(runs)
    ELSE Then(Head(runs), ChainUntilFailure(Tail(runs)))

\* hass.services.async_call(domain, name, {"entity_id": ls}, blocking=True) inside
\* try / except ServiceNotFound: ServiceNotFound is logged, another error is raised on
async_call(name, ls) ==
    LET result ==
            IF \E l \in ls : service[l] = "error" THEN "error"
            ELSE IF \E l \in ls : service[l] = "not_found" THEN "not_found"
            ELSE "ok"
    IN  [calls |-> <<[service |-> name, entity_id |-> ls, result |-> result]>>,
         raised |-> result = "error"]

\* a variant whose loop ends at the first light that fails
turn_on_lights_aborting(ls) ==
    ChainUntilFailure([i \in 1..Len(ListOf(ls)) |-> async_call("turn_on", {ListOf(ls)[i]})])

\* one call for each light
turn_on_lights(ls) ==
    Chain([i \in 1..Len(ListOf(ls)) |-> async_call("turn_on", {ListOf(ls)[i]})])

\* one call for the whole list
turn_off_lights(ls) == IF ls = {} THEN Nothing ELSE async_call("turn_off", ls)

\* update_active_lights(is_night_mode, lights_to_control, manual_states): the turn-off
\* loop runs over set(lights_to_control) and asks for the lights not in lights_to_control
update_active_lights(is_night, lights_to_control, ms) ==
    LET all_lights == lights_to_control
        new_mode == IF is_night THEN "night" ELSE "main"
        stale == ListOf({x \in all_lights : x \notin lights_to_control})
    IN  Then(Chain([i \in 1..Len(stale) |-> turn_off_lights({stale[i]})]),
             turn_on_lights({l \in lights_to_control : get(ms[new_mode], l, TRUE)}))

\* the commands given by the calls cs: <<service, light>>
Issued(cs) == UNION {{cs[i].service} \X cs[i].entity_id : i \in DOMAIN cs}

\* the lights follow the calls that were done
Actuate(cs) ==
    LET done == Issued(SelectSeq(cs, LAMBDA c : c.result = "ok"))
    IN  [l \in Lights |->
            IF <<"turn_on", l>> \in done THEN TRUE
            ELSE IF <<"turn_off", l>> \in done THEN FALSE
            ELSE light_on[l]]

(***************************************************************************)
(* PresenceControl._update_state                                           *)
(***************************************************************************)
\* a variant that looks at the rooms r lists, not at the rooms that list r
ListedByOccupied_reversed(r) ==
    \E o \in Rooms \ {r} : o \in adjacent_rooms[r] /\ state[o] = OCCUPIED

\* a room that lists r as adjacent is occupied
ListedByOccupied(r) ==
    \E o \in Rooms \ {r} : r \in adjacent_rooms[o] /\ state[o] = OCCUPIED

\* a variant that turns the lights off whatever the auto_off switch says
VacantCommands_always(r) ==
    LET vacant == RoomList({x \in adjacent_rooms[r] \cap Rooms : state[x] = VACANT})
    IN  IF ListedByOccupied(r) THEN Nothing
        ELSE Then(turn_off_lights(lights[r] \cup night_lights[r]),
                  Chain([i \in 1..Len(vacant) |->
                            turn_off_lights(active_lights(vacant[i]))]))

\* a variant that does not look for an occupied room that lists r
VacantCommands_unchecked(r) ==
    LET vacant == RoomList({x \in adjacent_rooms[r] \cap Rooms : state[x] = VACANT})
    IN  IF data[r].switch_auto_off
        THEN Then(turn_off_lights(lights[r] \cup night_lights[r]),
                  Chain([i \in 1..Len(vacant) |->
                            turn_off_lights(active_lights(vacant[i]))]))
        ELSE Nothing

\* a variant that turns off every registered room r lists, whatever its state
VacantCommands_every(r) ==
    LET vacant == RoomList(adjacent_rooms[r] \cap Rooms)
    IN  IF ListedByOccupied(r) THEN Nothing
        ELSE IF data[r].switch_auto_off
        THEN Then(turn_off_lights(lights[r] \cup night_lights[r]),
                  Chain([i \in 1..Len(vacant) |->
                            turn_off_lights(active_lights(vacant[i]))]))
        ELSE Nothing

\* new_state == VACANT: the commands
VacantCommands(r) ==
    LET vacant == RoomList({x \in adjacent_rooms[r] \cap Rooms : state[x] = VACANT})
    IN  IF ListedByOccupied(r) THEN Nothing
        ELSE IF data[r].switch_auto_off
        THEN Then(turn_off_lights(lights[r] \cup night_lights[r]),
                  Chain([i \in 1..Len(vacant) |->
                            turn_off_lights(active_lights(vacant[i]))]))
        ELSE Nothing

\* a variant in which night_manual_on holds the lights back in either mode
AutoOnApplies_any_mode(r) == data[r].switch_auto_on /\ ~night_manual_on(r)

\* new_state == OCCUPIED: auto_on and (not is_night_mode or not night_manual_on)
AutoOnApplies(r) ==
    data[r].switch_auto_on /\ (~is_night_mode(r) \/ ~night_manual_on(r))

all_lights_off(r) ==
    \A l \in active_lights(r) : ~get(manual_states[r][mode(r)], l, TRUE)

\* a variant that takes every light of the active set
lights_to_turn_on_all(r) == active_lights(r)

lights_to_turn_on(r) ==
    {l \in active_lights(r) : get(manual_states[r][mode(r)], l, TRUE)}

\* new_state == OCCUPIED: the branch "if all_lights_off" is taken
ManualReset(r) == AutoOnApplies(r) /\ all_lights_off(r)

\* new_state == OCCUPIED: the commands for the room's own lights
OwnOnCommands(r) ==
    IF ~AutoOnApplies(r) THEN Nothing
    ELSE IF all_lights_off(r) THEN turn_on_lights(active_lights(r))
    ELSE turn_on_lights(lights_to_turn_on(r))

\* a variant that turns the lights on and leaves the manual states as they were
OccupiedManualStates_kept(r) == manual_states[r]

\* new_state == OCCUPIED: the manual states of the room
OccupiedManualStates(r) ==
    IF ManualReset(r)
    THEN [manual_states[r] EXCEPT ![mode(r)] = [l \in active_lights(r) |-> TRUE]]
    ELSE manual_states[r]

\* a variant that does not look at the light sensor of the adjacent room
AdjacentOnCommands_unlit(r) ==
    LET vacant == RoomList({x \in adjacent_rooms[r] \cap Rooms : state[x] = VACANT})
    IN  Chain([i \in 1..Len(vacant) |-> turn_on_lights(active_lights(vacant[i]))])

\* the adjacent room x has no light sensor, or its light level is below its threshold
\* (not: light_level >= coordinator.light_threshold)
NeedsLight(x) ==
    config[x].has_light_sensor => data[x].sensor_light_level < config[x].light_threshold

\* new_state == OCCUPIED: the commands for the rooms r lists as adjacent; an id that
\* hass.data[DOMAIN] does not hold is passed over
AdjacentOnCommands(r) ==
    LET vacant == RoomList({x \in adjacent_rooms[r] \cap Rooms :
                               state[x] = VACANT /\ NeedsLight(x)})
    IN  Chain([i \in 1..Len(vacant) |-> turn_on_lights(active_lights(vacant[i]))])

\* _update_state: coordinator.data.get("switch_automation", True)
automation_enabled(r) == data[r].switch_automation

\* the side effects of _update_state(new_state) for room r
SideEffects(r, new_state) ==
    CASE new_state = VACANT -> VacantCommands(r)
      [] new_state = OCCUPIED -> Then(OwnOnCommands(r), AdjacentOnCommands(r))
      [] OTHER -> Nothing

\* the outcome of _update_state(new_state) for room r: an error raised by a side
\* effect leaves the method before self._state = new_state, after the manual states
\* were reset
_update_state(r, new_state) ==
    IF ~automation_enabled(r)
    THEN [state |-> state, manual_states |-> manual_states, calls |-> << >>,
          raised |-> FALSE]
    ELSE [state |->
              IF SideEffects(r, new_state).raised
              THEN state
              ELSE [state EXCEPT ![r] = new_state],
          manual_states |->
              IF new_state = OCCUPIED
              THEN [manual_states EXCEPT ![r] = OccupiedManualStates(r)]
              ELSE manual_states,
          calls |-> SideEffects(r, new_state).calls,
          raised |-> SideEffects(r, new_state).raised]

\* _validate_state_transition: valid_transitions (no handler calls it)
valid_transitions ==
    [s \in RoomState |->
        CASE s = VACANT -> {OCCUPIED}
          [] s = OCCUPIED -> {DETECTION_TIMEOUT, VACANT}
          [] s = DETECTION_TIMEOUT -> {OCCUPIED, COUNTDOWN}
          [] s = COUNTDOWN -> {OCCUPIED, VACANT}]

_validate_state_transition(s, new_state) == new_state \in valid_transitions[s]

\* the handler's transition takes effect
Apply(u) ==
    /\ state' = u.state
    /\ manual_states' = u.manual_states
    /\ calls' = u.calls
    /\ cmds' = Issued(u.calls)
    /\ light_on' = Actuate(u.calls)
    /\ UNCHANGED outside

\* the handler asked for no transition
NoTransition ==
    /\ calls' = << >>
    /\ cmds' = {}
    /\ UNCHANGED <<state, manual_states, light_on, outside>>

\* what the handler was: op and arg, the room, its state before, the state asked for,
\* whether _update_state reset the manual states of the mode, whether a side effect
\* raised an error, and whether that error left the handler (only
\* handle_presence_event catches it)
Record(op, r, arg, req) ==
    last' = [op |-> op, room |-> r, arg |-> arg, from |-> state[r], req |-> req,
             reset |-> req = OCCUPIED /\ automation_enabled(r) /\ ManualReset(r),
             raised |-> _update_state(r, req).raised,
             escaped |-> _update_state(r, req).raised /\ op # "presence"]

\* an event of the environment that asks PresenceControl for no transition
Environment(op, r) ==
    last' = [op |-> op, room |-> r, arg |-> "none", from |-> "none", req |-> "none",
             reset |-> FALSE, raised |-> FALSE, escaped |-> FALSE]

(***************************************************************************)
(* PresenceControl: timers                                                 *)
(***************************************************************************)
_start_detection_timer(r, c) == start(detection_timer[r], c.detection_timeout)

\* the duration _start_countdown_timer asks for
countdown_timeout(r, c, subtract_detection) ==
    LET timeout ==
            IF has_night_mode[r] /\ data[r].binary_sensor_night_mode
            THEN c.short_timeout
            ELSE c.long_timeout
    IN  IF subtract_detection THEN timeout - c.detection_timeout ELSE timeout

_start_countdown_timer(r, c, subtract_detection) ==
    start(countdown_timer[r], countdown_timeout(r, c, subtract_detection))

(***************************************************************************)
(* PresenceControl: event handlers                                         *)
(***************************************************************************)
\* a variant that asks for OCCUPIED whatever the state is
_on_presence_sensor_activated_unguarded(r) ==
    /\ Apply(_update_state(r, OCCUPIED))
    /\ Record("presence", r, "on", OCCUPIED)
    /\ UNCHANGED <<detection_timer, countdown_timer>>

_on_presence_sensor_activated(r) ==
    IF state[r] # OCCUPIED
    THEN /\ Apply(_update_state(r, OCCUPIED))
         /\ Record("presence", r, "on", OCCUPIED)
         /\ UNCHANGED <<detection_timer, countdown_timer>>
    ELSE /\ NoTransition
         /\ Record("presence", r, "on", "none")
         /\ UNCHANGED <<detection_timer, countdown_timer>>

\* a variant that asks for DETECTION_TIMEOUT whatever the state is
_on_presence_sensor_deactivated_unguarded(r, arg) ==
    /\ Apply(_update_state(r, DETECTION_TIMEOUT))
    /\ detection_timer' =
           [detection_timer EXCEPT ![r] = _start_detection_timer(r, config[r])]
    /\ Record("presence", r, arg, DETECTION_TIMEOUT)
    /\ UNCHANGED countdown_timer

_on_presence_sensor_deactivated(r, arg) ==
    IF state[r] = OCCUPIED
    THEN /\ Apply(_update_state(r, DETECTION_TIMEOUT))
         /\ detection_timer' =
                [detection_timer EXCEPT ![r] = _start_detection_timer(r, config[r])]
         /\ Record("presence", r, arg, DETECTION_TIMEOUT)
         /\ UNCHANGED countdown_timer
    ELSE /\ NoTransition
         /\ Record("presence", r, arg, "none")
         /\ UNCHANGED <<detection_timer, countdown_timer>>

handle_presence_event(r, new_state) ==
    /\ IF new_state = "on"
       THEN _on_presence_sensor_activated(r)
       ELSE _on_presence_sensor_deactivated(r, new_state)
    /\ UNCHANGED <<data, config, room_config, loop>>

\* handle_detection_timeout, reached from _detection_timer_finished
handle_detection_timeout(r) ==
    IF state[r] = DETECTION_TIMEOUT
    THEN IF check_any_lights_on(active_lights(r))
         THEN /\ Apply(_update_state(r, COUNTDOWN))
              /\ countdown_timer' =
                     [countdown_timer EXCEPT
                         ![r] = _start_countdown_timer(r, config[r], TRUE)]
              /\ Record("detection_timer", r, "fired", COUNTDOWN)
         ELSE /\ Apply(_update_state(r, VACANT))
              /\ Record("detection_timer", r, "fired", VACANT)
              /\ UNCHANGED countdown_timer
    ELSE /\ NoTransition
         /\ Record("detection_timer", r, "fired", "none")
         /\ UNCHANGED countdown_timer

\* the host runs the detection timer's callback
_detection_timer_finished(r) ==
    /\ detection_timer[r].pending
    /\ detection_timer' = [detection_timer EXCEPT ![r] = Fired(@)]
    /\ handle_detection_timeout(r)
    /\ UNCHANGED <<data, config, room_config, loop>>

\* a variant that asks for VACANT whatever the state is
_countdown_timer_finished_unguarded(r) ==
    /\ countdown_timer[r].pending
    /\ countdown_timer' = [countdown_timer EXCEPT ![r] = Fired(@)]
    /\ Apply(_update_state(r, VACANT))
    /\ Record("countdown_timer", r, "fired", VACANT)
    /\ UNCHANGED <<detection_timer, data, config, room_config, loop>>

\* the host runs the countdown timer's callback
_countdown_timer_finished(r) ==
    /\ countdown_timer[r].pending
    /\ countdown_timer' = [countdown_timer EXCEPT ![r] = Fired(@)]
    /\ IF state[r] = COUNTDOWN
       THEN /\ Apply(_update_state(r, VACANT))
            /\ Record("countdown_timer", r, "fired", VACANT)
       ELSE /\ NoTransition
            /\ Record("countdown_timer", r, "fired", "none")
    /\ UNCHANGED <<detection_timer, data, config, room_config, loop>>

(***************************************************************************)
(* PresenceControl: the handlers, run up to each await                     *)
(***************************************************************************)
\* self._state = new_state: a callback that is pending now is an earlier one
assigned(lp, r, new_state) ==
    [lp EXCEPT !.stale[r] =
        [detection |-> IF new_state = DETECTION_TIMEOUT
                       THEN detection_timer[r].pending ELSE @.detection,
         countdown |-> IF new_state = COUNTDOWN
                       THEN countdown_timer[r].pending ELSE @.countdown]]

\* _update_state(new_state) up to its first await: the light commands are sent and
\* the handler is suspended at them, before self._state = new_state; without a light
\* command the state is assigned and the handler is suspended at async_refresh
await_update_state(lp, r, new_state) ==
    LET u == _update_state(r, new_state)
        at == IF u.calls # << >> THEN "command" ELSE "refresh"
    IN  /\ automation_enabled(r)
        /\ ~u.raised
        /\ Len(loop.tasks) < MaxTasks
        /\ manual_states' = u.manual_states
        /\ calls' = u.calls
        /\ cmds' = Issued(u.calls)
        /\ light_on' = Actuate(u.calls)
        /\ state' = IF at = "refresh" THEN u.state ELSE state
        /\ loop' = [(IF at = "refresh" THEN assigned(lp, r, new_state) ELSE lp)
                       EXCEPT !.tasks =
                           Append(@, [room |-> r, new_state |-> new_state, at |-> at])]
        /\ UNCHANGED outside

\* handle_presence_event, up to the first await
presence_event_delivered(r, new_state) ==
    LET lp == [loop EXCEPT !.delivered[r] = new_state]
        asked == IF new_state = "on" THEN OCCUPIED ELSE DETECTION_TIMEOUT
    IN  /\ IF (new_state = "on") = (state[r] # OCCUPIED)
           THEN /\ await_update_state(lp, r, asked)
                /\ Record("presence", r, new_state, asked)
           ELSE /\ NoTransition
                /\ loop' = lp
                /\ Record("presence", r, new_state, "none")
        /\ UNCHANGED <<detection_timer, countdown_timer, data, config, room_config>>

\* _detection_timer_finished, up to the first await
detection_timer_fired(r) ==
    LET asked == IF check_any_lights_on(active_lights(r)) THEN COUNTDOWN ELSE VACANT
    IN  /\ detection_timer[r].pending
        /\ detection_timer' = [detection_timer EXCEPT ![r] = Fired(@)]
        /\ IF state[r] = DETECTION_TIMEOUT
           THEN /\ await_update_state(loop, r, asked)
                /\ Record("detection_timer", r, "fired", asked)
           ELSE /\ NoTransition
                /\ UNCHANGED loop
                /\ Record("detection_timer", r, "fired", "none")
        /\ UNCHANGED <<countdown_timer, data, config, room_config>>

\* _countdown_timer_finished, up to the first await
countdown_timer_fired(r) ==
    /\ countdown_timer[r].pending
    /\ countdown_timer' = [countdown_timer EXCEPT ![r] = Fired(@)]
    /\ IF state[r] = COUNTDOWN
       THEN /\ await_update_state(loop, r, VACANT)
            /\ Record("countdown_timer", r, "fired", VACANT)
       ELSE /\ NoTransition
            /\ UNCHANGED loop
            /\ Record("countdown_timer", r, "fired", "none")
    /\ UNCHANGED <<detection_timer, data, config, room_config>>

\* the sequence s without its i-th element
Without(s, i) == [j \in 1..(Len(s) - 1) |-> IF j < i THEN s[j] ELSE s[j + 1]]

\* the event loop resumes the i-th suspended handler. At a light command it goes on
\* to self._state = new_state and is suspended at async_refresh; at async_refresh it
\* returns from _update_state and starts the timer of the state it entered
resume(i) ==
    /\ i \in DOMAIN loop.tasks
    /\ LET t == loop.tasks[i]
           r == t.room
       IN  /\ IF t.at = "command"
              THEN /\ state' = [state EXCEPT ![r] = t.new_state]
                   /\ loop' = [assigned(loop, r, t.new_state)
                                  EXCEPT !.tasks[i].at = "refresh"]
                   /\ UNCHANGED <<detection_timer, countdown_timer>>
              ELSE /\ UNCHANGED state
                   /\ detection_timer' =
                          IF t.new_state = DETECTION_TIMEOUT
                          THEN [detection_timer EXCEPT
                                   ![r] = _start_detection_timer(r, config[r])]
                          ELSE detection_timer
                   /\ countdown_timer' =
                          IF t.new_state = COUNTDOWN
                          THEN [countdown_timer EXCEPT
                                   ![r] = _start_countdown_timer(r, config[r], TRUE)]
                          ELSE countdown_timer
                   /\ loop' =
                          [loop EXCEPT
                              !.tasks = Without(@, i),
                              !.stale[r] =
                                  [detection |->
                                       IF /\ t.new_state = DETECTION_TIMEOUT
                                          /\ config[r].detection_timeout > 0
                                       THEN FALSE ELSE @.detection,
                                   countdown |->
                                       IF /\ t.new_state = COUNTDOWN
                                          /\ countdown_timeout(r, config[r], TRUE) > 0
                                       THEN FALSE ELSE @.countdown]]
           /\ last' = [op |-> "resume", room |-> r, arg |-> t.at, from |-> "none",
                       req |-> "none", reset |-> FALSE, raised |-> FALSE,
                       escaped |-> FALSE]
    /\ calls' = << >>
    /\ cmds' = {}
    /\ UNCHANGED <<manual_states, light_on, outside, data, config, room_config>>

\* start_countdown_from_vacant: "when a light is turned on while vacant"; the
\* condition is the caller's, the method itself asks for COUNTDOWN unconditionally
start_countdown_from_vacant(r) ==
    /\ state[r] = VACANT
    /\ Apply(_update_state(r, COUNTDOWN))
    /\ countdown_timer' =
           [countdown_timer EXCEPT ![r] = _start_countdown_timer(r, config[r], FALSE)]
    /\ Record("start_countdown_from_vacant", r, "none", COUNTDOWN)
    /\ UNCHANGED <<detection_timer, data, config, room_config, loop>>

\* update_timers: the timer whose start is called for key, if any
Restarted(r, key) ==
    [op |-> "update_timers", room |-> r,
     arg |-> IF state[r] = DETECTION_TIMEOUT /\ key = "detection_timeout"
             THEN "detection_timer"
             ELSE IF state[r] = COUNTDOWN /\ key \in {"long_timeout", "short_timeout"}
             THEN "countdown_timer"
             ELSE "none",
     from |-> "none", req |-> "none", reset |-> FALSE, raised |-> FALSE,
     escaped |-> FALSE]

\* a variant that stores the value and leaves the running timers alone
update_timers_stored_only(r, key, value) ==
    /\ config' = [config EXCEPT ![r][key] = value]
    /\ NoTransition
    /\ last' = Restarted(r, key)
    /\ UNCHANGED <<detection_timer, countdown_timer, data, room_config, loop>>

\* a number entity is set to value, and update_timers(control_type, key) follows
update_timers(r, key, value) ==
    /\ config' = [config EXCEPT ![r][key] = value]
    /\ IF state[r] = DETECTION_TIMEOUT /\ key = "detection_timeout"
       THEN /\ detection_timer' =
                   [detection_timer EXCEPT ![r] = _start_detection_timer(r, config'[r])]
            /\ UNCHANGED countdown_timer
       ELSE IF state[r] = COUNTDOWN /\ key \in {"long_timeout", "short_timeout"}
       THEN /\ countdown_timer' =
                   [countdown_timer EXCEPT
                       ![r] = _start_countdown_timer(r, config'[r], TRUE)]
            /\ UNCHANGED detection_timer
       ELSE UNCHANGED <<detection_timer, countdown_timer>>
    /\ NoTransition
    /\ last' = Restarted(r, key)
    /\ UNCHANGED <<data, room_config, loop>>

(***************************************************************************)
(* The environment: switches, night mode, the user's hand on a light       *)
(***************************************************************************)
\* a switch entity is turned on or off (a room without night mode has no
\* night_manual_on switch)
SwitchToggled(r, key) ==
    /\ key = "switch_night_manual_on" => has_night_mode[r]
    /\ data' = [data EXCEPT ![r][key] = ~@]
    /\ NoTransition
    /\ Environment("switch", r)
    /\ UNCHANGED <<detection_timer, countdown_timer, config, room_config, loop>>

\* the night-mode window opens or closes; while OCCUPIED the active lights are updated
NightModeChanged(r) ==
    /\ has_night_mode[r]
    /\ data' = [data EXCEPT ![r].binary_sensor_night_mode = ~@]
    /\ calls' =
           IF state[r] = OCCUPIED
           THEN LET is_night == data'[r].binary_sensor_night_mode
                IN  update_active_lights(
                        is_night,
                        IF is_night THEN night_lights[r] ELSE lights[r],
                        manual_states[r]).calls
           ELSE << >>
    /\ cmds' = Issued(calls')
    /\ light_on' = Actuate(calls')
    /\ UNCHANGED <<state, manual_states, outside>>
    /\ Environment("night_mode", r)
    /\ UNCHANGED <<detection_timer, countdown_timer, config, room_config, loop>>

\* the light sensor of room r reads level
LightLevelChanged(r, level) ==
    /\ config[r].has_light_sensor
    /\ data[r].sensor_light_level # level
    /\ data' = [data EXCEPT ![r].sensor_light_level = level]
    /\ NoTransition
    /\ Environment("light_level", r)
    /\ UNCHANGED <<detection_timer, countdown_timer, config, room_config, loop>>

put(m, key, value) ==
    [k \in DOMAIN m \cup {key} |-> IF k = key THEN value ELSE m[k]]

\* the user turns a light of room r on or off: recorded only while OCCUPIED
LightChanged(r, l, on) ==
    /\ l \in active_lights(r)
    /\ light_on[l] # on
    /\ light_on' = [light_on EXCEPT ![l] = on]
    /\ manual_states' =
           IF state[r] = OCCUPIED
           THEN [manual_states EXCEPT ![r][mode(r)] = put(@, l, on)]
           ELSE manual_states
    /\ calls' = << >>
    /\ cmds' = {}
    /\ Environment("light", r)
    /\ UNCHANGED <<state, detection_timer, countdown_timer, data, config,
                   room_config, loop, outside>>

(***************************************************************************)
(* DynamicPresenceCoordinator (coordinator.py): the night-mode window.      *)
(* A time of day is [h, m, s]; a string is the sequence of its character   *)
(* codes, compared as Python compares strings.                             *)
(***************************************************************************)
Digit(d) == 48 + d

\* datetime.time.isoformat(): "HH:MM:SS"
isoformat(t) ==
    <<Digit(t.h \div 10), Digit(t.h % 10), 58,
      Digit(t.m \div 10), Digit(t.m % 10), 58,
      Digit(t.s \div 10), Digit(t.s % 10)>>

\* strftime("%H:%M")
strftime_HM(t) ==
    <<Digit(t.h \div 10), Digit(t.h % 10), 58, Digit(t.m \div 10), Digit(t.m % 10)>>

\* a < b for strings
RECURSIVE StrLess(_, _)
StrLess(a, b) ==
    IF b = << >> THEN FALSE
    ELSE IF a = << >> THEN TRUE
    ELSE IF Head(a) # Head(b) THEN Head(a) < Head(b)
    ELSE StrLess(Tail(a), Tail(b))

StrLeq(a, b) == a = b \/ StrLess(a, b)

\* start[:5] if len(start) > 5 else start
Trim(str) == IF Len(str) > 5 THEN SubSeq(str, 1, 5) ELSE str

\* a variant without the branch for a window that spans midnight
_is_night_mode_active_same_day(d, t) ==
    IF ~d.night_mode_enable THEN FALSE
    ELSE LET current_time == strftime_HM(t)
             start_hm == Trim(d.night_mode_start)
             end_hm == Trim(d.night_mode_end)
         IN  StrLeq(start_hm, current_time) /\ StrLess(current_time, end_hm)

\* _is_night_mode_active, for self.data = d and dt_util.now() = t
_is_night_mode_active(d, t) ==
    IF ~d.night_mode_enable THEN FALSE
    ELSE LET current_time == strftime_HM(t)
             start_hm == Trim(d.night_mode_start)
             end_hm == Trim(d.night_mode_end)
         IN  IF StrLeq(start_hm, end_hm)
             THEN StrLeq(start_hm, current_time) /\ StrLess(current_time, end_hm)
             ELSE StrLeq(start_hm, current_time) \/ StrLess(current_time, end_hm)

(***************************************************************************)
(* DynamicPresenceCoordinator (coordinator.py): manual states.              *)
(*   _manual_states, _temp_manual_states : light -> bool                   *)
(*   _remote_control_timeout             : it is not None                  *)
(*   _stored_manage_on_clear             : << >> for None, else <<value>>  *)
(*   _stored_manage_on_presence          : << >> for None, else <<value>>  *)
(*   sensor                              : the presence sensor's state     *)
(*   sensor_changed                      : its last_changed                *)
(*   presence_detected                   : PresenceDetector                *)
(*   _grace_period_start                 : << >> for None, else <<time>>   *)
(***************************************************************************)
\* what no handler of the coordinator of coordinator.py writes
presence_control ==
    <<state, detection_timer, countdown_timer, data, config, room_config, loop,
      manual_states, service, calls, storage>>

\* _get_controlled_entities: the regular entities (no night-mode entities configured)
controlled_entities == {"a1", "a2"}

\* dict.update
dict_update(m, n) ==
    [k \in DOMAIN m \cup DOMAIN n |-> IF k \in DOMAIN n THEN n[k] ELSE m[k]]

_store_temp_manual_state(c, entity_id, on) ==
    [c EXCEPT !._temp_manual_states = put(@, entity_id, on)]

_apply_temp_manual_states(c) ==
    IF DOMAIN c._temp_manual_states # {}
    THEN [c EXCEPT !._manual_states = dict_update(@, c._temp_manual_states),
                   !._temp_manual_states = << >>]
    ELSE c

_start_remote_control_timeout(c) ==
    IF c._stored_manage_on_clear = << >>
    THEN [c EXCEPT !._remote_control_timeout = TRUE,
                   !._stored_manage_on_clear = <<c.data.manage_on_clear>>,
                   !.data.manage_on_clear = FALSE]
    ELSE [c EXCEPT !._remote_control_timeout = TRUE]

_restore_manage_on_clear(c) ==
    IF c._stored_manage_on_clear # << >>
    THEN [c EXCEPT !.data.manage_on_clear = c._stored_manage_on_clear[1],
                   !._stored_manage_on_clear = << >>]
    ELSE c

_are_all_lights_off ==
    controlled_entities # {} /\ \A l \in controlled_entities : ~light_on[l]

\* what a handler of the coordinator was
Handled(op, arg) ==
    [op |-> op, room |-> "A", arg |-> arg, from |-> "none", req |-> "none",
     reset |-> FALSE, raised |-> FALSE, escaped |-> FALSE]

\* a user switches a controlled light (the state change carries a user id)
_detect_manual_changes(entity_id, new_state_on) ==
    /\ entity_id \in controlled_entities
    /\ light_on[entity_id] # new_state_on
    /\ light_on' = [light_on EXCEPT ![entity_id] = new_state_on]
    /\ LET occupied == coordinator.data.occupancy_state = "on"
           stored == _store_temp_manual_state(coordinator, entity_id, new_state_on)
           applied == IF occupied THEN _apply_temp_manual_states(stored) ELSE stored
       IN  coordinator' =
               IF new_state_on /\ ~occupied
               THEN _start_remote_control_timeout(applied)
               ELSE applied
    /\ cmds' = {}
    /\ last' = Handled("manual_change", entity_id)
    /\ UNCHANGED <<now, presence_control>>

\* the presence sensor changes to new_state: the branch for the presence sensor (no
\* entity has the id and the state "vacant" the other branch waits for)
_handle_state_change(new_state) ==
    /\ coordinator.sensor # new_state
    /\ LET c == [coordinator EXCEPT !.sensor = new_state, !.sensor_changed = now]
       IN  coordinator' =
               IF new_state = "on"
               THEN IF c._remote_control_timeout
                    THEN _apply_temp_manual_states(
                             _restore_manage_on_clear(
                                 [c EXCEPT !._remote_control_timeout = FALSE]))
                    ELSE c
               ELSE IF _are_all_lights_off
               THEN [c EXCEPT !.data.bypass_presence_timeout = TRUE]
               ELSE IF \A l \in controlled_entities : light_on[l]
               THEN [c EXCEPT !.data.clear_states_after_timeout = TRUE,
                              !.data.bypass_presence_timeout = FALSE]
               ELSE [c EXCEPT !.data.bypass_presence_timeout = FALSE]
    /\ cmds' = {}
    /\ last' = Handled("sensor", new_state)
    /\ UNCHANGED <<now, light_on, presence_control>>

\* _is_room_dark: without a light level the room counts as dark
_is_room_dark(c) ==
    IF c.data.light_level # << >>
    THEN c.data.light_level[1] < c.data.light_threshold
    ELSE TRUE

\* int(float(state.state)) of a reading given in tenths: the fraction is cut off
int_float(tenths) == tenths \div 10

\* _async_update_data: the light level is read if a light sensor is configured and
\* has a state; a state that is not a number stores None
read_light_level(c) ==
    IF c.light_sensor.configured /\ c.light_sensor.present
    THEN [c EXCEPT !.data.light_level =
             IF c.light_sensor.numeric
             THEN <<int_float(c.light_sensor.tenths)>>
             ELSE << >>]
    ELSE c

\* manage_entities(turn_on); timeout_reached: absence_duration >= timeout
manage_entities(c, turn_on, timeout_reached) ==
    LET idle == [coordinator |-> c, cmds |-> {}]
        cleared ==
            IF ~turn_on /\ ~c.data.bypass_presence_timeout
               /\ c.data.clear_states_after_timeout
            THEN [c EXCEPT !._manual_states = << >>,
                           !.data.clear_states_after_timeout = FALSE]
            ELSE c
    IN  IF ~c.data.enable THEN idle
        ELSE IF turn_on /\ ~c.data.manage_on_presence THEN idle
        ELSE IF ~turn_on /\ ~c.data.manage_on_clear THEN idle
        ELSE IF ~turn_on /\ ~c.data.bypass_presence_timeout /\ ~timeout_reached
        THEN idle
        ELSE IF turn_on
        THEN IF \E l \in controlled_entities : light_on[l]
             THEN idle
             ELSE IF ~_is_room_dark(c)
             THEN idle
             ELSE [coordinator |-> c,
                   cmds |-> {<<"turn_on", l>> : l \in
                               {x \in controlled_entities :
                                   get(c._manual_states, x, TRUE)}}]
        ELSE [coordinator |-> cleared,
              cmds |-> {<<"turn_off", l>> : l \in
                          {x \in controlled_entities : light_on[x]}}]

\* (a - b).total_seconds() of two times of the same day
total_seconds(a, b) == ((a.h - b.h) * 60 + (a.m - b.m)) * 60 + (a.s - b.s)

\* PresenceDetector.__init__: entry.options.get(CONF_SHORT_ABSENCE_THRESHOLD, 10)
grace_period == 10

\* (datetime.now() - self._grace_period_start) >= self.grace_period
grace_period_over(c) ==
    /\ c._grace_period_start # << >>
    /\ total_seconds(now, c._grace_period_start[1]) >= grace_period

\* PresenceDetector.update_presence, before it calls manage_entities; grace_over:
\* the grace period has passed
update_presence(c, grace_over) ==
    LET grace_started == c._grace_period_start # << >>
        detected ==
            IF c.sensor = "on" THEN TRUE
            ELSE IF c.presence_detected /\ grace_started /\ grace_over THEN FALSE
            ELSE c.presence_detected
        grace ==
            IF c.sensor = "on"
            THEN IF c.presence_detected THEN c._grace_period_start ELSE << >>
            ELSE IF c.presence_detected /\ ~grace_started THEN <<now>>
            ELSE c._grace_period_start
    IN  [c EXCEPT !.presence_detected = detected,
                  !._grace_period_start = grace,
                  !.data.occupancy_state = IF detected THEN "on" ELSE "off"]

\* _handle_night_mode_override: manage_on_presence is stored and switched off once,
\* and put back when the override is over
_handle_night_mode_override(c) ==
    IF /\ c.data.night_mode_enable
       /\ _is_night_mode_active(c.data, now)
       /\ c.data.night_mode_override_on_presence
    THEN IF c._stored_manage_on_presence = << >>
         THEN [c EXCEPT !._stored_manage_on_presence = <<c.data.manage_on_presence>>,
                        !.data.manage_on_presence = FALSE]
         ELSE c
    ELSE IF c._stored_manage_on_presence # << >>
    THEN [c EXCEPT !.data.manage_on_presence = c._stored_manage_on_presence[1],
                   !._stored_manage_on_presence = << >>]
    ELSE c

\* _async_update_data; remote_over: the remote control timeout has passed
_async_update_data(remote_over, grace_over, timeout_reached) ==
    LET expired == coordinator._remote_control_timeout /\ remote_over
        c0 == read_light_level(coordinator)
        off == manage_entities(
                   [c0 EXCEPT !._remote_control_timeout = FALSE],
                   FALSE, timeout_reached)
        c1 == IF expired THEN _restore_manage_on_clear(off.coordinator) ELSE c0
        lit == [l \in Lights |->
                   IF expired /\ <<"turn_off", l>> \in off.cmds THEN FALSE
                   ELSE light_on[l]]
        c2 == update_presence(c1, grace_over)
        managed == manage_entities(c2, c2.presence_detected, timeout_reached)
        c3 == managed.coordinator
    IN  /\ coordinator' =
               _handle_night_mode_override(
                   [c3 EXCEPT !.data.night_mode_status =
                       IF /\ c3.data.night_mode_enable
                          /\ _is_night_mode_active(c3.data, now)
                       THEN "on" ELSE "off"])
        /\ cmds' = (IF expired THEN off.cmds ELSE {}) \cup managed.cmds
        /\ light_on' =
               [l \in Lights |->
                   IF <<"turn_on", l>> \in managed.cmds THEN TRUE
                   ELSE IF <<"turn_off", l>> \in managed.cmds THEN FALSE
                   ELSE lit[l]]
        /\ last' = Handled("update", "none")
        /\ UNCHANGED <<now, presence_control>>

\* a time entity is set: async_set_value(value) stores value.isoformat()
async_set_value(key, value) ==
    /\ coordinator' = [coordinator EXCEPT !.data[key] = isoformat(value)]
    /\ last' = Handled("time", key)
    /\ UNCHANGED <<now, light_on, cmds, presence_control>>

\* the state of the light sensor entity changes: it is gone (present = FALSE), holds
\* a text that is not a number, or holds a number
LightSensorReads(reading) ==
    /\ coordinator.light_sensor.configured
    /\ coordinator.light_sensor # reading
    /\ coordinator' = [coordinator EXCEPT !.light_sensor = reading]
    /\ cmds' = {}
    /\ last' = Handled("light_sensor", "none")
    /\ UNCHANGED <<now, light_on, presence_control>>

\* a switch entity is turned on or off: async_save_options(key, value) for a key of
\* SWITCH_KEYS writes self.data[key]
async_save_options(key, value) ==
    /\ coordinator.data[key] # value
    /\ coordinator' = [coordinator EXCEPT !.data[key] = value]
    /\ cmds' = {}
    /\ last' = Handled("switch", key)
    /\ UNCHANGED <<now, light_on, presence_control>>

\* the night_mode_enable switch is turned on or off
NightModeEnableToggled ==
    /\ coordinator' = [coordinator EXCEPT !.data.night_mode_enable = ~@]
    /\ last' = Handled("switch", "night_mode_enable")
    /\ UNCHANGED <<now, light_on, cmds, presence_control>>

\* the clock shows t
ClockShows(t) ==
    /\ now' = t
    /\ now # t
    /\ UNCHANGED <<coordinator, light_on, cmds, last, presence_control>>

(***************************************************************************)
(* DynamicPresenceStorage (storage_collection.py)                          *)
(*   loaded        : self._data is not None                                *)
(*   manual_states : self._data.manual_states                              *)
(*   stored        : what the Store holds under "manual_states": << >>     *)
(*                   when nothing was saved, else <<the dict saved>>       *)
(***************************************************************************)
NewStorage == [loaded |-> FALSE, manual_states |-> << >>, stored |-> << >>]

\* what async_load, async_save and the setters of the storage leave alone
not_stored ==
    <<state, detection_timer, countdown_timer, data, config, room_config, loop,
      manual_states, light_on, service, calls, coordinator, now, cmds>>

\* async_load: stored.get("manual_states", {"main": {}, "night": {}})
async_load ==
    /\ storage' =
           [storage EXCEPT
               !.loaded = TRUE,
               !.manual_states =
                   IF Len(storage.stored) = 0
                   THEN [m \in Modes |-> << >>]
                   ELSE storage.stored[1]]
    /\ last' = Handled("async_load", "none")
    /\ UNCHANGED not_stored

\* set_manual_state(entity_id, value): the data property raises RuntimeError before
\* async_load
set_manual_state(entity_id, value) ==
    /\ storage.loaded
    /\ storage' = [storage EXCEPT !.manual_states = put(@, entity_id, value)]
    /\ last' = Handled("set_manual_state", entity_id)
    /\ UNCHANGED not_stored

\* get_manual_state(entity_id)
get_manual_state(entity_id) == get(storage.manual_states, entity_id, FALSE)

\* async_save
async_save ==
    /\ storage.loaded
    /\ storage' = [storage EXCEPT !.stored = <<storage.manual_states>>]
    /\ last' = Handled("async_save", "none")
    /\ UNCHANGED not_stored

(***************************************************************************)
(* The state after construction                                            *)
(***************************************************************************)
DefaultConfig ==
    [detection_timeout |-> 5, long_timeout |-> 120, short_timeout |-> 60,
     has_light_sensor |-> FALSE, light_threshold |-> DEFAULT_LIGHT_THRESHOLD]

DefaultData ==
    [switch_automation |-> TRUE, switch_auto_on |-> TRUE, switch_auto_off |-> TRUE,
     switch_night_manual_on |-> FALSE, binary_sensor_night_mode |-> FALSE,
     sensor_light_level |-> 0]

\* const.py: DEFAULT_NIGHT_MODE_START "23:00", DEFAULT_NIGHT_MODE_END "08:00",
\* DEFAULT_NIGHT_MODE_ENABLE
\* DEFAULT_ENABLE, DEFAULT_MANAGE_ON_CLEAR, DEFAULT_MANAGE_ON_PRESENCE
\* no light sensor is configured
NoLightSensor == [configured |-> FALSE, present |-> FALSE, numeric |-> FALSE, tenths |-> 0]

Noon == [h |-> 12, m |-> 0, s |-> 0]

DefaultCoordinator ==
    [data |-> [night_mode_enable |-> TRUE,
               night_mode_start |-> <<50, 51, 58, 48, 48>>,
               night_mode_end |-> <<48, 56, 58, 48, 48>>,
               night_mode_status |-> "off",
               enable |-> TRUE,
               manage_on_presence |-> TRUE,
               manage_on_clear |-> TRUE,
               occupancy_state |-> "none",
               bypass_presence_timeout |-> FALSE,
               clear_states_after_timeout |-> FALSE,
               night_mode_override_on_presence |-> FALSE,
               light_threshold |-> DEFAULT_LIGHT_THRESHOLD,
               light_level |-> << >>],
     light_sensor |-> NoLightSensor,
     _manual_states |-> << >>,
     _temp_manual_states |-> << >>,
     _remote_control_timeout |-> FALSE,
     _stored_manage_on_clear |-> << >>,
     _stored_manage_on_presence |-> << >>,
     sensor |-> "off",
     sensor_changed |-> Noon,
     presence_detected |-> FALSE,
     _grace_period_start |-> << >>]

InitCommon ==
    /\ coordinator = DefaultCoordinator
    /\ now = Noon
    /\ storage = NewStorage
    /\ loop = NoLoop
    /\ state = [r \in Rooms |-> VACANT]
    /\ detection_timer = [r \in Rooms |-> NoTimer]
    /\ countdown_timer = [r \in Rooms |-> NoTimer]
    /\ data = [r \in Rooms |-> DefaultData]
    /\ config = [r \in Rooms |-> DefaultConfig]
    /\ manual_states = [r \in Rooms |-> [m \in Modes |-> << >>]]
    /\ light_on = [l \in Lights |-> FALSE]
    /\ service = [l \in Lights |-> "ok"]
    /\ calls = << >>
    /\ cmds = {}
    /\ last = [op |-> "init", room |-> "A", arg |-> "none", from |-> "none",
               req |-> "none", reset |-> FALSE, raised |-> FALSE, escaped |-> FALSE]

\* the switches of a room without night mode
MainSwitchKeys == {"switch_automation", "switch_auto_on", "switch_auto_off"}

\* one room on its own, no night mode configured: room A with two main lights
Init ==
    /\ InitCommon
    /\ has_night_mode = [r \in Rooms |-> FALSE]
    /\ lights = [r \in Rooms |->
                    IF r = "A" THEN {"a1", "a2"} ELSE IF r = "B" THEN {"b1"} ELSE {"c1"}]
    /\ night_lights = [r \in Rooms |-> {}]
    /\ adjacent_rooms = [r \in Rooms |-> {}]

Next ==
    \/ \E s \in SensorStates : handle_presence_event("A", s)
    \/ _detection_timer_finished("A")
    \/ _countdown_timer_finished("A")
    \/ start_countdown_from_vacant("A")
    \/ \E k \in TimeoutKeys : \E v \in TimeoutValues[k] : update_timers("A", k, v)
    \/ \E k \in MainSwitchKeys : SwitchToggled("A", k)
    \/ \E l \in Lights : \E on \in BOOLEAN : LightChanged("A", l, on)

Spec == Init /\ [][Next]_vars

(***************************************************************************)
(* Room A driven by presence events, timer expiries and update_timers      *)
(* alone, from every setting of the switches and of the lights.            *)
(***************************************************************************)
InitEvents ==
    /\ coordinator = DefaultCoordinator
    /\ now = Noon
    /\ storage = NewStorage
    /\ loop = NoLoop
    /\ state = [r \in Rooms |-> VACANT]
    /\ detection_timer = [r \in Rooms |-> NoTimer]
    /\ countdown_timer = [r \in Rooms |-> NoTimer]
    /\ data \in {[r \in Rooms |->
                      IF r = "A"
                      THEN [DefaultData EXCEPT !.switch_automation = d[1],
                                               !.switch_auto_on = d[2],
                                               !.switch_auto_off = d[3]]
                      ELSE DefaultData] :
                    d \in BOOLEAN \X BOOLEAN \X BOOLEAN}
    /\ config = [r \in Rooms |-> DefaultConfig]
    /\ manual_states = [r \in Rooms |-> [m \in Modes |-> << >>]]
    /\ light_on \in {f \in [Lights -> BOOLEAN] : ~f["a3"] /\ ~f["b1"] /\ ~f["c1"]}
    /\ service = [l \in Lights |-> "ok"]
    /\ calls = << >>
    /\ cmds = {}
    /\ last = [op |-> "init", room |-> "A", arg |-> "none", from |-> "none",
               req |-> "none", reset |-> FALSE, raised |-> FALSE, escaped |-> FALSE]
    /\ has_night_mode = [r \in Rooms |-> FALSE]
    /\ lights = [r \in Rooms |->
                    IF r = "A" THEN {"a1", "a2"} ELSE IF r = "B" THEN {"b1"} ELSE {"c1"}]
    /\ night_lights = [r \in Rooms |-> {}]
    /\ adjacent_rooms = [r \in Rooms |-> {}]

NextEvents ==
    \/ \E s \in SensorStates : handle_presence_event("A", s)
    \/ _detection_timer_finished("A")
    \/ _countdown_timer_finished("A")
    \/ \E k \in TimeoutKeys : \E v \in TimeoutValues[k] : update_timers("A", k, v)

SpecEvents == InitEvents /\ [][NextEvents]_vars

(***************************************************************************)
(* Room A with night mode: main lights a1, a2 and night lights a2, a3;     *)
(* auto_on is switched, the night window opens and                         *)
(* closes, and the user switches the active lights.                        *)
(***************************************************************************)
InitManual ==
    /\ InitCommon
    /\ has_night_mode = [r \in Rooms |-> r = "A"]
    /\ lights = [r \in Rooms |->
                    IF r = "A" THEN {"a1", "a2"} ELSE IF r = "B" THEN {"b1"} ELSE {"c1"}]
    /\ night_lights = [r \in Rooms |-> IF r = "A" THEN {"a2", "a3"} ELSE {}]
    /\ adjacent_rooms = [r \in Rooms |-> {}]

NextManual ==
    \/ \E s \in {"on", "off"} : handle_presence_event("A", s)
    \/ _detection_timer_finished("A")
    \/ _countdown_timer_finished("A")
    \/ SwitchToggled("A", "switch_auto_on")
    \/ NightModeChanged("A")
    \/ \E l \in Lights : \E on \in BOOLEAN : LightChanged("A", l, on)

SpecManual == InitManual /\ [][NextManual]_vars

(***************************************************************************)
(* Rooms A and B, one light each, with every choice of adjacent-room lists *)
(* between the two (room C stays out of it);                               *)
(* the user switches the lights on, and b1 off.                            *)
(***************************************************************************)
InitAdjacent ==
    /\ InitCommon
    /\ has_night_mode = [r \in Rooms |-> FALSE]
    /\ lights = [r \in Rooms |->
                    IF r = "A" THEN {"a1"} ELSE IF r = "B" THEN {"b1"} ELSE {"c1"}]
    /\ night_lights = [r \in Rooms |-> {}]
    /\ adjacent_rooms \in {f \in [Rooms -> SUBSET {"A", "B"}] :
                              f["C"] = {} /\ \A r \in Rooms : r \notin f[r]}

NextAdjacent ==
    \/ \E r \in {"A", "B"} : \E s \in {"on", "off"} : handle_presence_event(r, s)
    \/ \E r \in {"A", "B"} : _detection_timer_finished(r)
    \/ \E r \in {"A", "B"} : _countdown_timer_finished(r)
    \/ \E r \in {"A", "B"} : SwitchToggled(r, "switch_auto_off")
    \/ \E r \in {"A", "B"} : \E l \in Lights : LightChanged(r, l, TRUE)
    \/ LightChanged("B", "b1", FALSE)

SpecAdjacent == InitAdjacent /\ [][NextAdjacent]_vars

(***************************************************************************)
(* Three rooms in a row, one light each: A lists B and B lists C, and B    *)
(* may list A as well. Presence comes and goes in A and B, room C stays    *)
(* VACANT; the user switches the lights on.                                *)
(***************************************************************************)
InitChain ==
    /\ InitCommon
    /\ has_night_mode = [r \in Rooms |-> FALSE]
    /\ lights = [r \in Rooms |->
                    IF r = "A" THEN {"a1"} ELSE IF r = "B" THEN {"b1"} ELSE {"c1"}]
    /\ night_lights = [r \in Rooms |-> {}]
    /\ adjacent_rooms \in
           {[r \in Rooms |-> IF r = "A" THEN {"B"} ELSE IF r = "B" THEN b ELSE {}] :
               b \in {{"C"}, {"A", "C"}}}

NextChain ==
    \/ \E r \in {"A", "B"} : \E s \in {"on", "off"} : handle_presence_event(r, s)
    \/ \E r \in {"A", "B"} : _detection_timer_finished(r)
    \/ \E r \in {"A", "B"} : _countdown_timer_finished(r)
    \/ SwitchToggled("B", "switch_auto_off")
    \/ \E r \in Rooms : \E l \in Lights : LightChanged(r, l, TRUE)

SpecChain == InitChain /\ [][NextChain]_vars

\* the light levels a sensor reads: below, at and above the threshold
LightLevels == {0, 20, 50}

\* room A lists B, C and an id that is not registered; B has a light sensor and a
\* night mode (its night light is a3), C has neither
InitForward ==
    /\ coordinator = DefaultCoordinator
    /\ now = Noon
    /\ storage = NewStorage
    /\ loop = NoLoop
    /\ state = [r \in Rooms |-> VACANT]
    /\ detection_timer = [r \in Rooms |-> NoTimer]
    /\ countdown_timer = [r \in Rooms |-> NoTimer]
    /\ data = [r \in Rooms |-> DefaultData]
    /\ config = [r \in Rooms |->
                    IF r = "B" THEN [DefaultConfig EXCEPT !.has_light_sensor = TRUE]
                    ELSE DefaultConfig]
    /\ manual_states = [r \in Rooms |-> [m \in Modes |-> << >>]]
    /\ light_on = [l \in Lights |-> FALSE]
    /\ service = [l \in Lights |-> "ok"]
    /\ calls = << >>
    /\ cmds = {}
    /\ last = [op |-> "init", room |-> "A", arg |-> "none", from |-> "none",
               req |-> "none", reset |-> FALSE, raised |-> FALSE, escaped |-> FALSE]
    /\ has_night_mode = [r \in Rooms |-> r = "B"]
    /\ lights = [r \in Rooms |->
                    IF r = "A" THEN {"a1"} ELSE IF r = "B" THEN {"b1"} ELSE {"c1"}]
    /\ night_lights = [r \in Rooms |-> IF r = "B" THEN {"a3"} ELSE {}]
    /\ adjacent_rooms = [r \in Rooms |-> IF r = "A" THEN {"B", "C", "X"} ELSE {}]

NextForward ==
    \/ \E r \in Rooms : \E s \in {"on", "off"} : handle_presence_event(r, s)
    \/ _detection_timer_finished("A")
    \/ _countdown_timer_finished("A")
    \/ \E v \in LightLevels : LightLevelChanged("B", v)
    \/ NightModeChanged("B")
    \/ SwitchToggled("A", "switch_auto_on")

SpecForward == InitForward /\ [][NextForward]_vars

\* room A has a night mode and lists room B; its switches auto_on and night_manual_on
\* are switched, and its lights a1 and a2 are switched by hand
InitSuppress ==
    /\ InitCommon
    /\ has_night_mode = [r \in Rooms |-> r = "A"]
    /\ lights = [r \in Rooms |->
                    IF r = "A" THEN {"a1", "a2"} ELSE IF r = "B" THEN {"b1"} ELSE {"c1"}]
    /\ night_lights = [r \in Rooms |-> IF r = "A" THEN {"a2", "a3"} ELSE {}]
    /\ adjacent_rooms = [r \in Rooms |-> IF r = "A" THEN {"B"} ELSE {}]

NextSuppress ==
    \/ \E s \in {"on", "off"} : handle_presence_event("A", s)
    \/ _detection_timer_finished("A")
    \/ _countdown_timer_finished("A")
    \/ \E k \in {"switch_auto_on", "switch_night_manual_on"} : SwitchToggled("A", k)
    \/ NightModeChanged("A")
    \/ \E l \in {"a1", "a2"} : \E on \in BOOLEAN : LightChanged("A", l, on)

SpecSuppress == InitSuppress /\ [][NextSuppress]_vars

(***************************************************************************)
(* Room A and its timers: the number entities take values that restart a   *)
(* running timer with another duration, or with none.                      *)
(***************************************************************************)
RestartValues ==
    [k \in TimeoutKeys |->
        CASE k = "detection_timeout" -> {5, 10}
          [] k = "long_timeout" -> {120, 10, 5}
          [] k = "short_timeout" -> {60}]

NextTimers ==
    \/ \E s \in {"on", "off"} : handle_presence_event("A", s)
    \/ _detection_timer_finished("A")
    \/ _countdown_timer_finished("A")
    \/ start_countdown_from_vacant("A")
    \/ \E k \in TimeoutKeys : \E v \in RestartValues[k] : update_timers("A", k, v)
    \/ SwitchToggled("A", "switch_automation")

SpecTimers == Init /\ [][NextTimers]_vars

\* room A with its handlers suspended at their awaits; a light is switched by hand
NextAwait ==
    \/ \E s \in {"on", "off"} : presence_event_delivered("A", s)
    \/ detection_timer_fired("A")
    \/ countdown_timer_fired("A")
    \/ \E i \in 1..MaxTasks : resume(i)
    \/ \E on \in BOOLEAN : LightChanged("A", "a1", on)

SpecAwait == Init /\ [][NextAwait]_vars

\* the event loop runs every handler that can go on, and the host runs every timer
\* callback that is due
SpecAwaitFair ==
    /\ Init
    /\ [][NextAwait]_vars
    /\ WF_vars(\E i \in 1..MaxTasks : resume(i))
    /\ WF_vars(detection_timer_fired("A"))
    /\ WF_vars(countdown_timer_fired("A"))

(***************************************************************************)
(* Room A with lights a1, a2 lists room B (light b1, always VACANT) as      *)
(* adjacent; the service calls for a1, a2 and b1 end in every way.         *)
(***************************************************************************)
InitFailure ==
    /\ coordinator = DefaultCoordinator
    /\ now = Noon
    /\ storage = NewStorage
    /\ loop = NoLoop
    /\ state = [r \in Rooms |-> VACANT]
    /\ detection_timer = [r \in Rooms |-> NoTimer]
    /\ countdown_timer = [r \in Rooms |-> NoTimer]
    /\ data = [r \in Rooms |-> DefaultData]
    /\ config = [r \in Rooms |-> DefaultConfig]
    /\ manual_states = [r \in Rooms |-> [m \in Modes |-> << >>]]
    /\ light_on = [l \in Lights |-> FALSE]
    /\ service \in {f \in [Lights -> Outcomes] : f["a3"] = "ok" /\ f["c1"] = "ok"}
    /\ calls = << >>
    /\ cmds = {}
    /\ last = [op |-> "init", room |-> "A", arg |-> "none", from |-> "none",
               req |-> "none", reset |-> FALSE, raised |-> FALSE, escaped |-> FALSE]
    /\ has_night_mode = [r \in Rooms |-> FALSE]
    /\ lights = [r \in Rooms |->
                    IF r = "A" THEN {"a1", "a2"} ELSE IF r = "B" THEN {"b1"} ELSE {"c1"}]
    /\ night_lights = [r \in Rooms |-> {}]
    /\ adjacent_rooms = [r \in Rooms |-> IF r = "A" THEN {"B"} ELSE {}]

NextFailure ==
    \/ \E s \in {"on", "off"} : handle_presence_event("A", s)
    \/ _detection_timer_finished("A")
    \/ _countdown_timer_finished("A")
    \/ \E l \in Lights : \E on \in BOOLEAN : LightChanged("A", l, on)

SpecFailure == InitFailure /\ [][NextFailure]_vars

(***************************************************************************)
(* The night-mode window of coordinator.py: the time entities are set to   *)
(* times of day with and without seconds, the switch is turned on and off, *)
(* and the clock moves.                                                    *)
(***************************************************************************)
Times == [h : {3, 8, 12, 23}, m : {0, 30}, s : {0, 30}]

NextNight ==
    \/ \E b \in BOOLEAN : _async_update_data(b, b, b)
    \/ \E k \in {"night_mode_start", "night_mode_end"} :
          \E t \in {x \in Times : x.h \in {8, 23}} : async_set_value(k, t)
    \/ NightModeEnableToggled
    \/ \E t \in Times : ClockShows(t)

SpecNight == Init /\ [][NextNight]_vars

(***************************************************************************)
(* The manual states of coordinator.py: the presence sensor turns on and   *)
(* off, the user switches a1 and a2, and the data are updated.             *)
(***************************************************************************)
NextCoordinator ==
    \/ \E l \in Lights : \E on \in BOOLEAN : _detect_manual_changes(l, on)
    \/ \E s \in {"on", "off"} : _handle_state_change(s)
    \/ \E remote_over, grace_over, timeout_reached \in BOOLEAN :
          _async_update_data(remote_over, grace_over, timeout_reached)

SpecCoordinator == Init /\ [][NextCoordinator]_vars

\* the states of the light sensor entity: gone, "unavailable", "19.9", "20.0"
LightSensorStates ==
    {[configured |-> TRUE, present |-> FALSE, numeric |-> FALSE, tenths |-> 0],
     [configured |-> TRUE, present |-> TRUE, numeric |-> FALSE, tenths |-> 0]}
    \cup {[configured |-> TRUE, present |-> TRUE, numeric |-> TRUE, tenths |-> t] :
             t \in {199, 200}}

\* the room of the coordinator has a light sensor
InitDark ==
    /\ coordinator \in {[DefaultCoordinator EXCEPT !.light_sensor = x] :
                           x \in LightSensorStates}
    /\ now = Noon
    /\ storage = NewStorage
    /\ loop = NoLoop
    /\ state = [r \in Rooms |-> VACANT]
    /\ detection_timer = [r \in Rooms |-> NoTimer]
    /\ countdown_timer = [r \in Rooms |-> NoTimer]
    /\ data = [r \in Rooms |-> DefaultData]
    /\ config = [r \in Rooms |-> DefaultConfig]
    /\ manual_states = [r \in Rooms |-> [m \in Modes |-> << >>]]
    /\ light_on = [l \in Lights |-> FALSE]
    /\ service = [l \in Lights |-> "ok"]
    /\ calls = << >>
    /\ cmds = {}
    /\ last = [op |-> "init", room |-> "A", arg |-> "none", from |-> "none",
               req |-> "none", reset |-> FALSE, raised |-> FALSE, escaped |-> FALSE]
    /\ has_night_mode = [r \in Rooms |-> FALSE]
    /\ lights = [r \in Rooms |->
                    IF r = "A" THEN {"a1", "a2"} ELSE IF r = "B" THEN {"b1"} ELSE {"c1"}]
    /\ night_lights = [r \in Rooms |-> {}]
    /\ adjacent_rooms = [r \in Rooms |-> {}]

NextDark ==
    \/ \E x \in LightSensorStates : LightSensorReads(x)
    \/ _detect_manual_changes("a1", FALSE)
    \/ \E s \in {"on", "off"} : _handle_state_change(s)
    \/ \E remote_over, grace_over, timeout_reached \in BOOLEAN :
          _async_update_data(remote_over, grace_over, timeout_reached)

SpecDark == InitDark /\ [][NextDark]_vars

\* the seconds after noon at which something happens
GraceTimes == [h : {12}, m : {0}, s : {0, 3, 6, 12, 15, 20}]

\* the presence sensor changes and the update cycles run while time passes; the grace
\* period is measured against the clock
NextGrace ==
    \/ \E s \in {"on", "off"} : _handle_state_change(s)
    \/ \E remote_over, timeout_reached \in BOOLEAN :
          _async_update_data(remote_over, grace_period_over(coordinator),
                             timeout_reached)
    \/ \E t \in GraceTimes : total_seconds(t, now) > 0 /\ ClockShows(t)

SpecGrace == Init /\ [][NextGrace]_vars

\* the update cycles run by day and by night while the switches manage_on_presence,
\* night_mode_override_on_presence and night_mode_enable are turned on and off
NextOverride ==
    \/ \E b \in BOOLEAN : _async_update_data(b, b, b)
    \/ \E k \in {"manage_on_presence", "night_mode_override_on_presence"} :
          \E v \in BOOLEAN : async_save_options(k, v)
    \/ NightModeEnableToggled
    \/ \E s \in {"on", "off"} : _handle_state_change(s)
    \/ \E t \in {x \in Times : x.h \in {12, 23} /\ x.m = 0 /\ x.s = 0} : ClockShows(t)

SpecOverride == Init /\ [][NextOverride]_vars

(***************************************************************************)
(* The storage: it is loaded, manual states of the lights are set, and it  *)
(* is saved and loaded again.                                              *)
(***************************************************************************)
NextStorage ==
    \/ async_load
    \/ \E l \in Lights : \E v \in BOOLEAN : set_manual_state(l, v)
    \/ async_save

SpecStorage == Init /\ [][NextStorage]_vars

(***************************************************************************)
(* The properties                                                          *)
(***************************************************************************)
\* the last handler ran for room r and asked _update_state for a transition
Requested(r) == last.room = r /\ last.req \in RoomState /\ last.from \in RoomState

\* the last handler was a presence event with reading arg for room r
PresenceEvent(r, arg) == last.op = "presence" /\ last.room = r /\ last.arg = arg

OwnLights(r) == lights[r] \cup night_lights[r]

\* C1: a request for a transition that is not an edge of the table leaves RoomState
\* as it was and gives no light command.
C1_InvalidRequestRejected ==
    \A r \in Rooms :
        (Requested(r) /\ ~_validate_state_transition(last.from, last.req))
            => (state[r] = last.from /\ cmds = {})

\* C2: under presence events, timer expiries and update_timers, every change of
\* RoomState is an edge of the table; DETECTION_TIMEOUT is left only to OCCUPIED
\* or COUNTDOWN.
C2_ChangesAreEdges ==
    [][\A r \in Rooms :
          state'[r] # state[r] => _validate_state_transition(state[r], state'[r])]_vars

\* C3: (automation enabled) presence OFF in OCCUPIED with an active light on leads to
\* DETECTION_TIMEOUT with the detection timer pending; presence ON handled in
\* DETECTION_TIMEOUT leads back to OCCUPIED with no detection callback pending.
C3_Debounce ==
    \A r \in Rooms :
        /\ (/\ PresenceEvent(r, "off")
            /\ last.from = OCCUPIED
            /\ automation_enabled(r)
            /\ check_any_lights_on(active_lights(r)))
               => (state[r] = DETECTION_TIMEOUT /\ detection_timer[r].pending)
        /\ (/\ PresenceEvent(r, "on")
            /\ last.from = DETECTION_TIMEOUT
            /\ automation_enabled(r))
               => (/\ state[r] = OCCUPIED
                   /\ ~detection_timer[r].pending
                   /\ ~detection_timer[r].timer)

\* C4: (automation enabled) presence OFF in OCCUPIED with no active light on leads
\* straight to VACANT, and neither timer is started.
C4_VacancyShortCircuit ==
    \A r \in Rooms :
        (/\ PresenceEvent(r, "off")
         /\ last.from = OCCUPIED
         /\ automation_enabled(r)
         /\ ~check_any_lights_on(active_lights(r)))
            => (/\ state[r] = VACANT
                /\ ~detection_timer[r].pending
                /\ ~countdown_timer[r].pending)

\* C5: a presence-ON event handled while the room is OCCUPIED changes no RoomState,
\* gives no light command, changes no manual state and no light, and starts or cancels
\* no timer.
C5_IdempotentActivation ==
    [][\A r \in Rooms :
          (/\ last'.op = "presence" /\ last'.room = r /\ last'.arg = "on"
           /\ last'.from = OCCUPIED)
              => (/\ state[r] = OCCUPIED
                  /\ state' = state
                  /\ cmds' = {}
                  /\ manual_states' = manual_states
                  /\ light_on' = light_on
                  /\ detection_timer' = detection_timer
                  /\ countdown_timer' = countdown_timer)]_vars

\* C5 happens: presence ON arrives in an OCCUPIED room whose automation and auto_on
\* are enabled, with a light of the active set off and a detection callback pending
C5_Witness ==
    /\ PresenceEvent("A", "on")
    /\ last.from = OCCUPIED
    /\ state["A"] = OCCUPIED
    /\ automation_enabled("A")
    /\ data["A"].switch_auto_on
    /\ \E l \in active_lights("A") : ~light_on[l]
    /\ detection_timer["A"].pending

\* C6: when COUNTDOWN is entered from DETECTION_TIMEOUT by the detection timer's
\* expiry, the countdown timer is pending with duration T - detection_timeout, T being
\* short_timeout in night mode and long_timeout otherwise.
C6_CountdownDuration ==
    \A r \in Rooms :
        (/\ last.op = "detection_timer" /\ last.room = r
         /\ last.from = DETECTION_TIMEOUT
         /\ state[r] = COUNTDOWN)
            => LET T == IF is_night_mode(r)
                        THEN config[r].short_timeout
                        ELSE config[r].long_timeout
               IN  /\ countdown_timer[r].pending
                   /\ countdown_timer[r].duration = T - config[r].detection_timeout

\* the manual state of light l of room r for mode m is recorded and is b
ManualStateIs(r, m, l, b) ==
    l \in DOMAIN manual_states[r][m] /\ manual_states[r][m][l] = b

\* C7: when a room enters OCCUPIED with automation and auto_on enabled and auto-on not
\* suppressed by night_manual_on, and every light of the active set has manual state
\* false for the current mode, every light of the active set is given turn_on and has
\* manual state true for that mode afterwards.
C7_AllLightsOffReset ==
    [][\A r \in Rooms :
          (/\ state[r] # OCCUPIED /\ state'[r] = OCCUPIED
           /\ data[r].switch_automation
           /\ data[r].switch_auto_on
           /\ ~(is_night_mode(r) /\ data[r].switch_night_manual_on)
           /\ \A l \in active_lights(r) : ManualStateIs(r, mode(r), l, FALSE))
              => \A l \in active_lights(r) :
                    /\ <<"turn_on", l>> \in cmds'
                    /\ l \in DOMAIN manual_states'[r][mode(r)]
                    /\ manual_states'[r][mode(r)][l] = TRUE]_vars

\* C7 happens: room A has just entered OCCUPIED in night mode through the reset, with
\* both night lights commanded on, and its main-mode memory still all false
C7_Witness ==
    /\ PresenceEvent("A", "on")
    /\ last.from = VACANT
    /\ last.reset
    /\ state["A"] = OCCUPIED
    /\ is_night_mode("A")
    /\ Cardinality(active_lights("A")) = 2
    /\ \A l \in active_lights("A") :
          <<"turn_on", l>> \in cmds /\ ManualStateIs("A", "night", l, TRUE)
    /\ \A l \in lights["A"] : ManualStateIs("A", "main", l, FALSE)

\* the lights of room r given turn_on by the last handler
CommandedOn(r, c) == {l \in OwnLights(r) : <<"turn_on", l>> \in c}

EnteredVacant(b) ==
    Requested(b) /\ last.req = VACANT /\ last.from # VACANT /\ state[b] = VACANT

NoTurnOffFor(ls) == \A l \in ls : <<"turn_off", l>> \notin cmds

\* C9 as stated: room B lists room A as adjacent and A is OCCUPIED; when B enters
\* VACANT no turn_off is given for B's own lights.
C9_ListingRoomKeepsLights ==
    \A a \in Rooms : \A b \in Rooms \ {a} :
        (a \in adjacent_rooms[b] /\ state[a] = OCCUPIED /\ EnteredVacant(b))
            => NoTurnOffFor(OwnLights(b))

\* C9 amended: room A lists room B as adjacent and A is OCCUPIED; when B enters
\* VACANT no turn_off is given for B's own lights.
C9_ListedRoomKeepsLights ==
    \A a \in Rooms : \A b \in Rooms \ {a} :
        (b \in adjacent_rooms[a] /\ state[a] = OCCUPIED /\ EnteredVacant(b))
            => NoTurnOffFor(OwnLights(b))

\* C9 amended happens: A lists B, B does not list A, A is OCCUPIED, and B has entered
\* VACANT with auto_off enabled and its light still on
C9_Witness ==
    /\ adjacent_rooms = [r \in Rooms |-> IF r = "A" THEN {"B"} ELSE {}]
    /\ state["A"] = OCCUPIED
    /\ EnteredVacant("B")
    /\ data["B"].switch_auto_off
    /\ light_on["b1"]

\* C10: with the automation switch disabled, a handler that asks for a transition
\* leaves RoomState as it would be with the switch enabled, and gives no light command.
C10_DisabledStillUpdatesState ==
    \A r \in Rooms :
        (Requested(r) /\ ~data[r].switch_automation)
            => (state[r] = last.req /\ cmds = {})

\* C12: a presence event whose reading is neither "on" nor "off" changes neither
\* RoomState nor a timer and gives no light command.
C12_UnknownReadingIgnored ==
    [][\A r \in Rooms :
          (last'.op = "presence" /\ last'.room = r /\ last'.arg = "unavailable")
              => /\ state'[r] = state[r]
                 /\ detection_timer'[r] = detection_timer[r]
                 /\ countdown_timer'[r] = countdown_timer[r]
                 /\ cmds' = {}]_vars

\* C14: when a room enters VACANT while its auto_off switch is disabled, no light of
\* any room is given turn_off.
C14_AutoOffDisabled ==
    [][\A r \in Rooms :
          (state[r] # VACANT /\ state'[r] = VACANT /\ ~data[r].switch_auto_off)
              => \A l \in Lights : <<"turn_off", l>> \notin cmds']_vars

\* C14 happens: B has entered VACANT with auto_off disabled and its light on, while
\* the room it lists, A, is VACANT with its light on, and nothing was switched off
C14_Witness ==
    /\ EnteredVacant("B")
    /\ ~data["B"].switch_auto_off
    /\ adjacent_rooms["B"] = {"A"}
    /\ state["A"] = VACANT
    /\ light_on["a1"] /\ light_on["b1"]
    /\ cmds = {}

\* C16: the host never holds more than one callback of a timer, and holds one only
\* under the handle the timer keeps: a start with a positive duration cancels the
\* callback that was pending.
C16_SingleSlot ==
    \A r \in Rooms :
        /\ Scheduled(detection_timer[r]) <= 1
        /\ Scheduled(countdown_timer[r]) <= 1
        /\ detection_timer[r].orphans = 0
        /\ countdown_timer[r].orphans = 0
        /\ detection_timer[r].pending => detection_timer[r].timer
        /\ countdown_timer[r].pending => countdown_timer[r].timer

\* C16 happens: update_timers has called start for the countdown timer of A in
\* COUNTDOWN, and the one callback pending has the new duration
C16_Witness ==
    /\ last.op = "update_timers" /\ last.arg = "countdown_timer"
    /\ state["A"] = COUNTDOWN
    /\ config["A"].long_timeout = 10
    /\ countdown_timer["A"].pending
    /\ countdown_timer["A"].duration = 5
    /\ Scheduled(countdown_timer["A"]) = 1

\* C17: a start with a duration <= 0 leaves the timer as it was: a pending callback
\* stays pending with its duration, an inactive timer stays inactive.
C17_NonPositiveStartIsNoOp ==
    [][\A r \in Rooms :
          /\ (/\ last'.op = "update_timers" /\ last'.room = r
              /\ last'.arg = "countdown_timer"
              /\ countdown_timeout(r, config'[r], TRUE) <= 0)
                 => countdown_timer'[r] = countdown_timer[r]
          /\ (/\ last'.op = "detection_timer" /\ last'.room = r
              /\ last'.req = COUNTDOWN
              /\ countdown_timeout(r, config[r], TRUE) <= 0)
                 => countdown_timer'[r] = countdown_timer[r]]_vars

\* C17 happens: in COUNTDOWN with the callback for 115 s pending, long_timeout was
\* set so that update_timers asked for a start with 0 or less
C17_Witness ==
    /\ last.op = "update_timers" /\ last.arg = "countdown_timer"
    /\ state["A"] = COUNTDOWN
    /\ countdown_timeout("A", config["A"], TRUE) <= 0
    /\ countdown_timer["A"].pending
    /\ countdown_timer["A"].duration = 115

\* C18: when detection_timeout is changed while the room is in DETECTION_TIMEOUT, the
\* room stays in DETECTION_TIMEOUT and exactly one detection callback is pending, with
\* the new duration.
C18_DetectionRestart ==
    [][\A r \in Rooms :
          (/\ state[r] = DETECTION_TIMEOUT
           /\ last'.op = "update_timers" /\ last'.room = r
           /\ config'[r].detection_timeout # config[r].detection_timeout)
              => /\ state'[r] = DETECTION_TIMEOUT
                 /\ detection_timer'[r].timer
                 /\ detection_timer'[r].pending
                 /\ detection_timer'[r].duration = config'[r].detection_timeout
                 /\ Scheduled(detection_timer'[r]) = 1]_vars

\* C18 happens: the detection timer of A was restarted in DETECTION_TIMEOUT with 10 s
C18_Witness ==
    /\ last.op = "update_timers" /\ last.arg = "detection_timer"
    /\ state["A"] = DETECTION_TIMEOUT
    /\ config["A"].detection_timeout = 10
    /\ detection_timer["A"].pending
    /\ detection_timer["A"].duration = 10

\* a call of the last handler failed
CallFailed == \E i \in DOMAIN calls : calls[i].result # "ok"

\* C11: when a light command fails during the side effects of a transition to
\* OCCUPIED or VACANT, RoomState is the new state after the handler, and the error
\* does not leave handle_presence_event.
C11_TransitionStands ==
    \A r \in Rooms :
        (/\ Requested(r)
         /\ last.req \in {OCCUPIED, VACANT}
         /\ automation_enabled(r)
         /\ CallFailed)
            => /\ state[r] = last.req
               /\ last.op = "presence" => ~last.escaped

\* the call turn_on_lights makes for light l
TurnOnCall(l) == [service |-> "turn_on", entity_id |-> {l}, result |-> service[l]]

\* C19: turn_on_lights over a set whose lights fail, if they fail, with
\* ServiceNotFound makes exactly one turn_on call for every light of the set and
\* raises nothing; over the empty set it makes no call.
C19_TurnOnEveryLight ==
    /\ turn_on_lights({}) = Nothing
    /\ \A ls \in SUBSET Lights :
          (\A l \in ls : service[l] # "error")
              => LET run == turn_on_lights(ls)
                 IN  /\ ~run.raised
                     /\ Len(run.calls) = Cardinality(ls)
                     /\ \A l \in ls :
                           \E i \in DOMAIN run.calls : run.calls[i] = TurnOnCall(l)

\* C19 happens: presence ON in room A has called turn_on for a1, which ended with
\* ServiceNotFound, and then for a2 and for b1 of the adjacent room
C19_Witness ==
    /\ PresenceEvent("A", "on")
    /\ last.req = OCCUPIED
    /\ service["a1"] = "not_found"
    /\ Len(calls) = 3
    /\ calls[1] = TurnOnCall("a1")
    /\ calls[2] = TurnOnCall("a2")
    /\ calls[3] = TurnOnCall("b1")
    /\ ~light_on["a1"] /\ light_on["a2"]

\* C20: a turn_off over a set is one batched call, and when the batched call fails a
\* turn_off call for each light of the set follows.
C20_TurnOffFallback ==
    \A i \in DOMAIN calls :
        (calls[i].service = "turn_off" /\ calls[i].result # "ok")
            => \A l \in calls[i].entity_id :
                  \E j \in DOMAIN calls :
                      /\ j > i
                      /\ calls[j].service = "turn_off"
                      /\ calls[j].entity_id = {l}

\* the digits of a stored time: seconds since midnight, and the same with the
\* seconds of the stored time dropped
Value(ch) == ch - 48
Minutes(str) ==
    (Value(str[1]) * 10 + Value(str[2])) * 60 + Value(str[4]) * 10 + Value(str[5])
Seconds(str) ==
    Minutes(str) * 60 + (IF Len(str) >= 8 THEN Value(str[7]) * 10 + Value(str[8]) ELSE 0)

\* t is in the window from a to b, which spans midnight when b < a
InWindow(a, b, t) == IF a <= b THEN a <= t /\ t < b ELSE t >= a \/ t < b

SecondsOfDay(t) == (t.h * 60 + t.m) * 60 + t.s

\* C15 as stated: with the switch enabled night mode is active exactly when the time
\* of day is in the window from start to end; with the switch disabled, never.
C15_NightWindowExact ==
    _is_night_mode_active(coordinator.data, now)
        <=> /\ coordinator.data.night_mode_enable
            /\ InWindow(Seconds(coordinator.data.night_mode_start),
                        Seconds(coordinator.data.night_mode_end),
                        SecondsOfDay(now))

\* C15 amended: with the switch enabled night mode is active exactly when the time
\* of day is in the window from start to end, start and end taken without their
\* seconds; with the switch disabled, never.
C15_NightWindowToTheMinute ==
    _is_night_mode_active(coordinator.data, now)
        <=> /\ coordinator.data.night_mode_enable
            /\ InWindow(Minutes(coordinator.data.night_mode_start) * 60,
                        Minutes(coordinator.data.night_mode_end) * 60,
                        SecondsOfDay(now))

\* C15 amended happens: start 23:00, end 08:00, and at 03:00:30 the update has set
\* the night-mode status to "on"
C15_Witness ==
    /\ coordinator.data.night_mode_enable
    /\ coordinator.data.night_mode_start = <<50, 51, 58, 48, 48>>
    /\ coordinator.data.night_mode_end = isoformat([h |-> 8, m |-> 0, s |-> 0])
    /\ now = [h |-> 3, m |-> 0, s |-> 30]
    /\ coordinator.data.night_mode_status = "on"

\* C13: the remembered manual state of a light is written only when that light is
\* switched while the room is occupied: a switch seen while the room is not occupied
\* changes it neither then nor at a later event.
C13_RecordedOnlyWhileOccupied ==
    [][\A l \in Lights :
          LET before == coordinator._manual_states
              after == coordinator'._manual_states
          IN  (l \in DOMAIN after /\ (l \notin DOMAIN before \/ after[l] # before[l]))
                  => /\ last'.op = "manual_change"
                     /\ last'.arg = l
                     /\ coordinator.data.occupancy_state = "on"]_vars

\* a light of room r with no recorded manual state is read as on by _update_state (it
\* is among the lights to turn on, and keeps "all lights off" false) and by
\* update_active_lights (it is turned on)
MissingEntryIsOnIn(r) ==
    /\ \A l \in active_lights(r) :
          l \notin DOMAIN manual_states[r][mode(r)]
              => (l \in lights_to_turn_on(r) /\ ~all_lights_off(r))
    /\ \A m \in Modes :
          LET ls == IF m = "night" THEN night_lights[r] ELSE lights[r]
              run == update_active_lights(m = "night", ls, manual_states[r])
          IN  \A l \in ls :
                 (l \notin DOMAIN manual_states[r][m] /\ ~run.raised)
                     => \E i \in DOMAIN run.calls : run.calls[i] = TurnOnCall(l)

\* C21: a configured light with no recorded manual state is read as on wherever its
\* manual state is read: by _update_state, by update_active_lights, and by
\* get_manual_state of the loaded storage.
C21_MissingEntryIsOn ==
    \A r \in Rooms :
        /\ MissingEntryIsOnIn(r)
        /\ \A l \in OwnLights(r) :
              (storage.loaded /\ l \notin DOMAIN storage.manual_states)
                  => get_manual_state(l)

\* C22: presence_detected is false at construction, and after update_presence has
\* handled the presence sensor's reading it is true exactly when the sensor reads "on".
C22_PresenceFollowsSensor ==
    /\ last.op = "init" => ~coordinator.presence_detected
    /\ last.op = "update"
          => (coordinator.presence_detected <=> coordinator.sensor = "on")

\* C23: (automation enabled) when a room is to enter VACANT while a room that lists
\* it as adjacent is OCCUPIED, no light of any room is given turn_off (neither the
\* room's own lights nor those of the rooms it lists), and the room's RoomState is
\* VACANT afterwards.
C23_ListedRoomTurnsNothingOff ==
    [][\A r \in Rooms :
          (/\ last'.room = r /\ last'.req = VACANT
           /\ state[r] # VACANT
           /\ automation_enabled(r)
           /\ ListedByOccupied(r))
              => /\ state'[r] = VACANT
                 /\ \A l \in Lights : <<"turn_off", l>> \notin cmds']_vars

\* C23 happens: B has entered VACANT with auto_off enabled while A, which lists B, is
\* OCCUPIED; B's light is on, and so is the light of C, which B lists and which is
\* VACANT; nothing was switched off
C23_Witness ==
    /\ EnteredVacant("B")
    /\ data["B"].switch_auto_off
    /\ "B" \in adjacent_rooms["A"] /\ state["A"] = OCCUPIED
    /\ "C" \in adjacent_rooms["B"] /\ state["C"] = VACANT
    /\ light_on["b1"] /\ light_on["c1"]
    /\ cmds = {}

\* C24: (automation enabled) when a room is to enter OCCUPIED while a room that lists
\* it as adjacent is OCCUPIED, none of its own lights is given turn_on.
C24_ListedRoomLeftAlone ==
    [][\A r \in Rooms :
          (/\ last'.room = r /\ last'.req = OCCUPIED
           /\ state[r] # OCCUPIED
           /\ automation_enabled(r)
           /\ ListedByOccupied(r))
              => \A l \in OwnLights(r) : <<"turn_on", l>> \notin cmds']_vars

\* C25: after a presence-ON event handled in VACANT, DETECTION_TIMEOUT or COUNTDOWN,
\* neither the detection timer nor the countdown timer has a pending callback.
C25_ActivationCancelsTimers ==
    \A r \in Rooms :
        (PresenceEvent(r, "on") /\ last.from \in RoomState \ {OCCUPIED})
            => (~detection_timer[r].pending /\ ~countdown_timer[r].pending)

\* C26: when the countdown timer expires while RoomState is COUNTDOWN, RoomState is
\* VACANT afterwards, whatever the switches and the lights are.
C26_CountdownExpiryVacates ==
    \A r \in Rooms :
        (last.op = "countdown_timer" /\ last.room = r /\ last.from = COUNTDOWN)
            => state[r] = VACANT

\* C27: when the detection timer expires while RoomState is DETECTION_TIMEOUT: with a
\* light of the active set on, RoomState becomes COUNTDOWN and the countdown timer has
\* a pending callback; with none on, RoomState becomes VACANT and no countdown timer
\* is started.
C27_DetectionExpiry ==
    [][\A r \in Rooms :
          (/\ last'.op = "detection_timer" /\ last'.room = r
           /\ state[r] = DETECTION_TIMEOUT)
              => IF check_any_lights_on(active_lights(r))
                 THEN state'[r] = COUNTDOWN /\ countdown_timer'[r].pending
                 ELSE state'[r] = VACANT /\ countdown_timer'[r] = countdown_timer[r]]_vars

\* C28: a detection-timer expiry handled while RoomState is not DETECTION_TIMEOUT, and
\* a countdown-timer expiry handled while RoomState is not COUNTDOWN, change no
\* RoomState, start no timer (the callback that ran is gone, nothing else changes in
\* the timers) and give no light command.
C28_StaleFiringIgnored ==
    [][\A r \in Rooms :
          /\ (/\ last'.op = "detection_timer" /\ last'.room = r
              /\ state[r] # DETECTION_TIMEOUT)
                 => /\ state' = state
                    /\ cmds' = {}
                    /\ light_on' = light_on
                    /\ detection_timer' = [detection_timer EXCEPT ![r] = Fired(@)]
                    /\ countdown_timer' = countdown_timer
          /\ (/\ last'.op = "countdown_timer" /\ last'.room = r
              /\ state[r] # COUNTDOWN)
                 => /\ state' = state
                    /\ cmds' = {}
                    /\ light_on' = light_on
                    /\ countdown_timer' = [countdown_timer EXCEPT ![r] = Fired(@)]
                    /\ detection_timer' = detection_timer]_vars

\* C28 happens: the countdown timer of A, started in COUNTDOWN, has expired after
\* presence came back: A is OCCUPIED with a light on and auto_off enabled, and was
\* left so
C28_Witness ==
    /\ last.op = "countdown_timer" /\ last.room = "A"
    /\ last.from = OCCUPIED /\ last.req = "none"
    /\ state["A"] = OCCUPIED
    /\ automation_enabled("A") /\ data["A"].switch_auto_off
    /\ light_on["a1"]
    /\ ~countdown_timer["A"].pending
    /\ cmds = {}

\* C29: a presence-OFF event handled while RoomState is VACANT, DETECTION_TIMEOUT or
\* COUNTDOWN changes no RoomState, leaves both timers as they are and gives no light
\* command.
C29_DeactivationIgnored ==
    [][\A r \in Rooms :
          (/\ last'.op = "presence" /\ last'.room = r /\ last'.arg = "off"
           /\ state[r] # OCCUPIED)
              => /\ state' = state
                 /\ detection_timer' = detection_timer
                 /\ countdown_timer' = countdown_timer
                 /\ cmds' = {}
                 /\ light_on' = light_on]_vars

\* C29 happens: presence OFF has arrived in COUNTDOWN with automation enabled, a light
\* on and the countdown timer pending, and the room is still in COUNTDOWN
C29_Witness ==
    /\ PresenceEvent("A", "off")
    /\ last.from = COUNTDOWN /\ last.req = "none"
    /\ state["A"] = COUNTDOWN
    /\ automation_enabled("A")
    /\ light_on["a1"]
    /\ countdown_timer["A"].pending
    /\ ~detection_timer["A"].pending

\* C30: when night mode begins or ends while the room is OCCUPIED, every light of the
\* old mode's set that is on and is not in the new mode's set is given turn_off, and
\* every light of the new set whose manual state for the new mode is true (or not
\* recorded) is given turn_on.
C30_NightModeTransition ==
    [][\A r \in Rooms :
          (last'.op = "night_mode" /\ last'.room = r /\ state[r] = OCCUPIED)
              => LET is_night == data'[r].binary_sensor_night_mode
                     new_mode == IF is_night THEN "night" ELSE "main"
                     new_set == IF is_night THEN night_lights[r] ELSE lights[r]
                 IN  /\ \A l \in active_lights(r) \ new_set :
                            light_on[l] => <<"turn_off", l>> \in cmds'
                     /\ \A l \in new_set :
                            get(manual_states[r][new_mode], l, TRUE)
                                => <<"turn_on", l>> \in cmds']_vars

\* C31: when a room enters OCCUPIED, turn_on is given for the active light set of a
\* room R it lists as adjacent exactly when R is VACANT and R has no light sensor or
\* R's light level is below R's threshold; a listed id that is not registered is
\* passed over without an error.
C31_ForwardPresence ==
    [][\A r \in Rooms :
          (last'.room = r /\ state[r] # OCCUPIED /\ state'[r] = OCCUPIED)
              => /\ \A x \in adjacent_rooms[r] \cap Rooms :
                       IF /\ state[x] = VACANT
                          /\ \/ ~config[x].has_light_sensor
                             \/ data[x].sensor_light_level < config[x].light_threshold
                       THEN \A l \in active_lights(x) : <<"turn_on", l>> \in cmds'
                       ELSE \A l \in OwnLights(x) : <<"turn_on", l>> \notin cmds'
                 /\ (adjacent_rooms[r] \ Rooms # {}) => ~last'.raised]_vars

\* C31 happens: A, which lists B, C and the unregistered X, has entered OCCUPIED while
\* B was VACANT in night mode with a light level at its threshold and C was VACANT:
\* C's light was turned on, B's lights were not
C31_Witness ==
    /\ PresenceEvent("A", "on")
    /\ last.from = VACANT
    /\ state["A"] = OCCUPIED
    /\ "X" \in adjacent_rooms["A"]
    /\ state["B"] = VACANT /\ state["C"] = VACANT
    /\ is_night_mode("B")
    /\ config["B"].has_light_sensor
    /\ data["B"].sensor_light_level = config["B"].light_threshold
    /\ <<"turn_on", "c1">> \in cmds
    /\ <<"turn_on", "a3">> \notin cmds /\ <<"turn_on", "b1">> \notin cmds
    /\ ~last.raised

\* C32: when a room enters VACANT and turns off its own lights (main and night), it
\* gives turn_off for the active light set of every room it lists that is VACANT, and
\* for no room it lists that is not VACANT.
C32_ForwardVacancy ==
    [][\A r \in Rooms :
          (/\ last'.room = r /\ state[r] # VACANT /\ state'[r] = VACANT
           /\ \A l \in OwnLights(r) : <<"turn_off", l>> \in cmds')
              => \A x \in adjacent_rooms[r] \cap Rooms :
                    IF state[x] = VACANT
                    THEN \A l \in active_lights(x) : <<"turn_off", l>> \in cmds'
                    ELSE \A l \in OwnLights(x) : <<"turn_off", l>> \notin cmds']_vars

\* C32 happens: A's countdown has expired and A has turned off its own light and the
\* light of C, which it lists and which is VACANT, and has left alone the lights of B,
\* which it lists and which is OCCUPIED in night mode
C32_Witness ==
    /\ last.op = "countdown_timer" /\ last.room = "A"
    /\ state["A"] = VACANT
    /\ state["B"] = OCCUPIED /\ is_night_mode("B") /\ light_on["a3"]
    /\ state["C"] = VACANT
    /\ cmds = {<<"turn_off", "a1">>, <<"turn_off", "c1">>}
    /\ ~light_on["c1"]

\* C33: a room that enters OCCUPIED while night mode is active and night_manual_on is
\* enabled gives no turn_on for its own lights and changes no manual state, and is
\* OCCUPIED; while night mode is not active, night_manual_on does not change what
\* auto-on does.
C33_NightManualOn ==
    [][\A r \in Rooms :
          (last'.room = r /\ state[r] # OCCUPIED /\ state'[r] = OCCUPIED)
              => /\ (/\ has_night_mode[r]
                     /\ data[r].binary_sensor_night_mode
                     /\ data[r].switch_night_manual_on)
                        => /\ CommandedOn(r, cmds') = {}
                           /\ manual_states' = manual_states
                 /\ ~(has_night_mode[r] /\ data[r].binary_sensor_night_mode)
                        => /\ CommandedOn(r, cmds') =
                                 IF ~data[r].switch_auto_on THEN {}
                                 ELSE IF \A l \in lights[r] :
                                            ManualStateIs(r, "main", l, FALSE)
                                 THEN lights[r]
                                 ELSE {l \in lights[r] :
                                          ~ManualStateIs(r, "main", l, FALSE)}
                           /\ manual_states'[r]["night"] = manual_states[r]["night"]]_vars

\* C33 happens: A has entered OCCUPIED from VACANT in night mode with auto_on and
\* night_manual_on enabled; its night lights are off and only the light of B, which A
\* lists, was turned on
C33_Witness ==
    /\ PresenceEvent("A", "on")
    /\ last.from = VACANT
    /\ state["A"] = OCCUPIED
    /\ is_night_mode("A")
    /\ data["A"].switch_auto_on /\ data["A"].switch_night_manual_on
    /\ ~light_on["a2"] /\ ~light_on["a3"]
    /\ cmds = {<<"turn_on", "b1">>}

\* C34: after an update cycle in which the light sensor had no state or a state that
\* is not a number, the stored light level is null and no light was turned on.
C34_UnreadableSensorNotDark ==
    (/\ last.op = "update"
     /\ coordinator.light_sensor.configured
     /\ ~(coordinator.light_sensor.present /\ coordinator.light_sensor.numeric))
        => /\ coordinator.data.light_level = << >>
           /\ \A l \in Lights : <<"turn_on", l>> \notin cmds

\* C35: whenever RoomState is DETECTION_TIMEOUT the detection timer has a pending
\* callback, and whenever it is COUNTDOWN the countdown timer has one, for every
\* configuration of detection_timeout, long_timeout and short_timeout.
C35_TimedStateHasTimer ==
    \A r \in Rooms :
        /\ state[r] = DETECTION_TIMEOUT => detection_timer[r].pending
        /\ state[r] = COUNTDOWN => countdown_timer[r].pending

\* C36: if the last presence event delivered is OFF and no further presence event
\* arrives, RoomState eventually leaves OCCUPIED, also when the OFF event is handled
\* while the handler of the preceding ON event is suspended at a light command.
C36_OffLeavesOccupied ==
    \A r \in {"A"} :
        (loop.delivered[r] = "off" /\ state[r] = OCCUPIED)
            ~> (state[r] # OCCUPIED \/ loop.delivered[r] = "on")

\* C37: a detection or countdown callback that was scheduled before the room entered
\* its present DETECTION_TIMEOUT or COUNTDOWN never makes the transition out of it.
C37_EarlierCallbackIgnored ==
    [][\A r \in Rooms :
          /\ (/\ last'.op = "detection_timer" /\ last'.room = r
              /\ last'.req \in RoomState)
                 => ~loop.stale[r].detection
          /\ (/\ last'.op = "countdown_timer" /\ last'.room = r
              /\ last'.req \in RoomState)
                 => ~loop.stale[r].countdown]_vars

\* C38: a room that enters OCCUPIED while auto_on is disabled gives turn_on to no
\* light, neither its own nor those of a room it lists as adjacent.
C38_AutoOnOffNoTurnOn ==
    [][\A r \in Rooms :
          (/\ last'.room = r /\ state[r] # OCCUPIED /\ state'[r] = OCCUPIED
           /\ ~data[r].switch_auto_on)
              => \A l \in Lights : <<"turn_on", l>> \notin cmds']_vars

\* C39: presence_detected goes from true to false only when the presence sensor has
\* read "off" without a break for at least the grace period.
C39_GraceCountsUnbrokenOff ==
    [][(coordinator.presence_detected /\ ~coordinator'.presence_detected)
          => /\ coordinator.sensor = "off"
             /\ total_seconds(now, coordinator.sensor_changed) >= grace_period]_vars

\* C40: after every update cycle that runs while night mode is active with
\* night_mode_enable and night_mode_override_on_presence set, manage_on_presence is
\* false, whatever was saved to manage_on_presence in between; after an update cycle
\* that runs when the override does not apply, nothing is stored any more.
C40_OverrideHoldsEveryCycle ==
    [][(last'.op = "update" /\ now' = now)
          => IF /\ coordinator'.data.night_mode_enable
                /\ _is_night_mode_active(coordinator'.data, now')
                /\ coordinator'.data.night_mode_override_on_presence
             THEN ~coordinator'.data.manage_on_presence
             ELSE coordinator'._stored_manage_on_presence = << >>]_vars

====
